---- MODULE Spec2Model ----
(***************************************************************************)
(* A model of mdbook-grammar: the lexer, the marker/wrap parser, the       *)
(* syntax tree, the document segmenter, the rule table and the renderer.   *)
(*                                                                         *)
(* Text is a sequence of one-character strings; offsets are 0-based, so    *)
(* the character at offset c of text t is t[c + 1].  An Option is a        *)
(* sequence of length 0 (None) or 1 (Some).  A TLA+ string cannot hold a   *)
(* backtick: the model writes the apostrophe ' for the backtick character, *)
(* in texts and in messages alike.                                         *)
(***************************************************************************)
EXTENDS Integers, Sequences, FiniteSets, TLC

VARIABLES
  lexText,    \* the lexer machine: the text being lexed,
  lexState,   \*   the lexer,
  lexNode,    \*   and, as an Option, the node the last next() returned
  parseText,  \* the parser machine: the text given to parse(),
  parser,     \*   the parser,
  parsed,     \*   and, as an Option, the node parse() returned
  called,     \* the machine of the parser's methods: the last call made
  seg,        \* the segmenter machine: the locals of parse_content(),
  segHanded,  \*   for each Code item pushed, the fence and what was parsed,
  segDone,    \*   and whether parse_content() has returned
  book,       \* the run machine: the chapters of the book,
  runRoot,    \*   the root prefix given to run(),
  run         \*   and the locals of run()

lexerVars == <<lexText, lexState, lexNode>>

parserVars == <<parseText, parser, parsed, called>>

segVars == <<seg, segHanded, segDone>>

runVars == <<book, runRoot, run>>

vars ==
  <<lexText, lexState, lexNode, parseText, parser, parsed, called,
    seg, segHanded, segDone, book, runRoot, run>>

(***************************************************************************)
(* Character classes (restricted to ASCII).                                *)
(***************************************************************************)
Letters ==
  { "a", "b", "c", "d", "e", "f", "g", "h", "i", "j", "k", "l", "m",
    "n", "o", "p", "q", "r", "s", "t", "u", "v", "w", "x", "y", "z",
    "A", "B", "C", "D", "E", "F", "G", "H", "I", "J", "K", "L", "M",
    "N", "O", "P", "Q", "R", "S", "T", "U", "V", "W", "X", "Y", "Z" }

Digits == { "0", "1", "2", "3", "4", "5", "6", "7", "8", "9" }

HexDigits ==
  Digits \cup { "a", "b", "c", "d", "e", "f", "A", "B", "C", "D", "E", "F" }

is_whitespace == { " ", "\n", "\t", "\r", "\f" }

is_numeric == Digits

is_alphanumeric == Letters \cup Digits

is_newline == { "\n", "\f", "\r" }

is_id_start == Letters \cup { "_" }

is_id_continue == Letters \cup Digits \cup { "_" }

SimpleEscapes == { "n", "r", "t", "b", "f", "\\", "\"" }

(***************************************************************************)
(* The scanner: a text and a cursor.                                       *)
(***************************************************************************)
done(t, c) == c >= Len(t)

at(t, c, pat) ==
  /\ c + Len(pat) <= Len(t)
  /\ SubSeq(t, c + 1, c + Len(pat)) = pat

from(t, start, c) == SubSeq(t, start + 1, c)

RECURSIVE eat_while_in(_, _, _)
eat_while_in(t, c, S) ==
  IF c < Len(t) /\ t[c + 1] \in S THEN eat_while_in(t, c + 1, S) ELSE c

RECURSIVE eat_until(_, _, _)
eat_until(t, c, pat) ==
  IF done(t, c) \/ at(t, c, pat) THEN c ELSE eat_until(t, c + 1, pat)

RECURSIVE eat_until_in(_, _, _)
eat_until_in(t, c, S) ==
  IF c < Len(t) /\ t[c + 1] \notin S THEN eat_until_in(t, c + 1, S) ELSE c

(***************************************************************************)
(* Syntax kinds.                                                           *)
(***************************************************************************)
is_trivia == { "Whitespace", "Comment" }

is_looking ==
  { "LookAheadPos", "LookAheadNeg", "LookBehindPos", "LookBehindNeg" }

is_prefix == { "Question", "Star", "Plus", "LeftBrace" }

is_operator ==
  { "Colon", "SemiColon", "Arrow", "LeftParen", "RightParen", "LeftBrace",
    "RightBrace", "Comma", "Bar", "Tilde", "Dot", "Question", "Star",
    "Plus", "Dots", "LookAheadPos", "LookAheadNeg", "LookBehindPos",
    "LookBehindNeg" }

name(k) ==
  CASE k = "Root" -> "root"
    [] k = "Comment" -> "comment"
    [] k = "Whitespace" -> "whitespace"
    [] k = "End" -> "end"
    [] k = "Error" -> "error"
    [] k = "Identifier" -> "identifier"
    [] k = "String" -> "string"
    [] k = "Integer" -> "integer"
    [] k = "Meta" -> "meta"
    [] k = "Operation" -> "operation"
    [] k = "If" -> "if"
    [] k = "Colon" -> "':'"
    [] k = "SemiColon" -> "';'"
    [] k = "Arrow" -> "'->'"
    [] k = "LeftBracket" -> "'['"
    [] k = "RightBracket" -> "']'"
    [] k = "LeftParen" -> "'('"
    [] k = "RightParen" -> "')'"
    [] k = "LeftBrace" -> "'{'"
    [] k = "RightBrace" -> "'}'"
    [] k = "Comma" -> "','"
    [] k = "Bar" -> "'|'"
    [] k = "Tilde" -> "'~'"
    [] k = "Dot" -> "'.'"
    [] k = "Question" -> "'?'"
    [] k = "Star" -> "'*'"
    [] k = "Plus" -> "'+'"
    [] k = "Dots" -> "'..'"
    [] k = "LookAheadPos" -> "'?='"
    [] k = "LookAheadNeg" -> "'?!'"
    [] k = "LookBehindPos" -> "'?<='"
    [] k = "LookBehindNeg" -> "'?<!'"
    [] k = "Rule" -> "rule"
    [] k = "Param" -> "param"
    [] k = "Definition" -> "definition"
    [] k = "Group" -> "group"
    [] k = "Converse" -> "converse"
    [] k = "Range" -> "range"
    [] k = "Repeating" -> "repeating"
    [] k = "BraceIndicator" -> "brace_indicator"
    [] k = "Looking" -> "looking"
    [] k = "Action" -> "action"
    [] k = "Reference" -> "reference"

(***************************************************************************)
(* Syntax nodes: Leaf, Inner and Error.  A message or a hint is a sequence *)
(* of pieces of text: the fixed words as one piece, and each character     *)
(* that depends on the input as a piece of its own.                        *)
(***************************************************************************)
SyntaxError_new(message) == [message |-> message, hints |-> <<>>]

SyntaxError_hint(e, h) == [e EXCEPT !.hints = Append(@, h)]

leaf(k, txt, s, e) ==
  [type |-> "Leaf", kind |-> k, text |-> txt, span |-> <<s, e>>]

error_node(err, txt, s, e) ==
  [type |-> "Error", text |-> txt, span |-> <<s, e>>, error |-> err]

kind(n) == IF n.type = "Error" THEN "Error" ELSE n.kind

text(n) == IF n.type = "Inner" THEN <<>> ELSE n.text

span(n) == n.span

children(n) == IF n.type = "Inner" THEN n.children ELSE <<>>

erroneous(n) ==
  CASE n.type = "Leaf" -> FALSE
    [] n.type = "Inner" -> n.erroneous
    [] n.type = "Error" -> TRUE

InnerNode_new_direct(k, ch) ==
  [type |-> "Inner",
   kind |-> k,
   span |-> << IF ch = <<>> THEN 0 ELSE span(ch[1])[1],
               IF ch = <<>> THEN 0 ELSE span(ch[Len(ch)])[2] >>,
   erroneous |-> \E i \in 1..Len(ch) : ch[i].type = "Error",
   children |-> ch]

InnerNode_new(k, ch) ==
  [type |-> "Inner",
   kind |-> k,
   span |-> << IF ch = <<>> THEN 0 ELSE span(ch[1])[1],
               IF ch = <<>> THEN 0 ELSE span(ch[Len(ch)])[2] >>,
   erroneous |-> \E i \in 1..Len(ch) : erroneous(ch[i]),
   children |-> ch]

inner(k, ch) == InnerNode_new(k, ch)

hints(n, h) ==
  IF n.type = "Error" THEN [n EXCEPT !.error = SyntaxError_hint(@, h)] ELSE n

convert_kind(n, k) == IF n.type = "Error" THEN n ELSE [n EXCEPT !.kind = k]

\* A convert_to_error that measures the span on the text it keeps.
convert_to_error_measured(n, message) ==
  IF n.type = "Error"
    THEN n
    ELSE error_node(SyntaxError_new(message), text(n), span(n)[1],
                    span(n)[1] + Len(text(n)))

convert_to_error(n, message) ==
  IF n.type = "Error"
    THEN n
    ELSE error_node(SyntaxError_new(message), text(n), span(n)[1], span(n)[2])

(***************************************************************************)
(* The lexer: lx = [text, cursor, error], error an Option of SyntaxError.  *)
(* A lexing function returns the lexer after it and the kind it found.     *)
(***************************************************************************)
Lexer_new(t) == [text |-> t, cursor |-> 0, error |-> <<>>]

Lexer_jump(lx, target) == [lx EXCEPT !.cursor = target]

Lexer_done(lx) == done(lx.text, lx.cursor)

\* A lexer that keeps the error it has already recorded.
Lexer_error_first(lx, message) ==
  IF lx.error # <<>>
    THEN lx
    ELSE [lx EXCEPT !.error = <<SyntaxError_new(message)>>]

Lexer_error(lx, message) == [lx EXCEPT !.error = <<SyntaxError_new(message)>>]

Lexer_hint(lx, h) ==
  IF lx.error # <<>>
    THEN [lx EXCEPT !.error = <<SyntaxError_hint(@[1], h)>>]
    ELSE lx

Found(lx, k) == [lx |-> lx, kind |-> k]

\* u64::from_str_radix(s, 16).is_err(): empty, a sign alone, a character that
\* is no hex digit (one leading + is allowed), or a value of more than 64 bits.
RECURSIVE strip_zeros(_)
strip_zeros(s) ==
  IF s # <<>> /\ s[1] = "0" THEN strip_zeros(Tail(s)) ELSE s

from_str_radix_is_err(s) ==
  LET digits == IF s # <<>> /\ s[1] = "+" THEN Tail(s) ELSE s
  IN \/ digits = <<>>
     \/ \E i \in 1..Len(digits) : digits[i] \notin HexDigits
     \/ Len(strip_zeros(digits)) > 16

whitespace(lx) ==
  Found([lx EXCEPT !.cursor = eat_while_in(lx.text, @, is_whitespace)],
        "Whitespace")

line_comment(lx) ==
  Found([lx EXCEPT !.cursor = eat_until_in(lx.text, @, is_newline)], "Comment")

RECURSIVE block_comment(_)
block_comment(lx) ==
  LET t == lx.text
      c == lx.cursor
  IN IF done(t, c)
       THEN Found(Lexer_hint(Lexer_error(lx, <<"unclosed block comment">>),
                             <<"consider closing the block comment with '*/'">>),
                  "Error")
       ELSE IF t[c + 1] = "*"
         THEN IF done(t, c + 1)
                THEN block_comment([lx EXCEPT !.cursor = c + 1])
                ELSE IF t[c + 2] = "/"
                  THEN Found([lx EXCEPT !.cursor = c + 2], "Comment")
                  ELSE block_comment([lx EXCEPT !.cursor = c + 2])
         ELSE block_comment([lx EXCEPT !.cursor = c + 1])

\* The escape after a backslash-u, the cursor standing behind the u.
unicode_escape(lx) ==
  LET t == lx.text
      c == lx.cursor
  IN IF at(t, c, <<"{">>)
       THEN LET c2 == eat_while_in(t, c + 1, is_alphanumeric)
                unicode == from(t, c + 1, c2)
            IN IF ~at(t, c2, <<"}">>)
                 THEN Lexer_hint(
                        Lexer_error([lx EXCEPT !.cursor = c2],
                                    <<"unclosed unicode escape">>),
                        <<"consider closing the unicode escape with '}'">>)
                 ELSE IF from_str_radix_is_err(unicode)
                   THEN Lexer_hint(
                          Lexer_error([lx EXCEPT !.cursor = c2 + 1],
                                      <<"invalid unicode escape">>),
                          <<"unicode must be a hex number">>)
                   ELSE [lx EXCEPT !.cursor = c2 + 1]
       ELSE LET c2 == IF c + 4 <= Len(t) THEN c + 4 ELSE Len(t)
                unicode == from(t, c, c2)
            IN IF from_str_radix_is_err(unicode)
                 THEN Lexer_hint(
                        Lexer_error([lx EXCEPT !.cursor = c2],
                                    <<"invalid unicode escape">>),
                        <<"unicode must be a hex number">>)
                 ELSE [lx EXCEPT !.cursor = c2]

RECURSIVE string(_)
string(lx) ==
  LET t == lx.text
      c == lx.cursor
  IN IF done(t, c)
       THEN Found(Lexer_hint(Lexer_error(lx, <<"unclosed string literal">>),
                             <<"consider closing the string literal with '", "\"", "'">>),
                  "Error")
       ELSE IF t[c + 1] = "\""
         THEN Found([lx EXCEPT !.cursor = c + 1], "String")
         ELSE IF t[c + 1] = "\\"
           THEN IF done(t, c + 1)
                  THEN string([lx EXCEPT !.cursor = c + 1])
                  ELSE IF t[c + 2] \in SimpleEscapes
                    THEN string([lx EXCEPT !.cursor = c + 2])
                    ELSE IF t[c + 2] = "u"
                      THEN string(unicode_escape([lx EXCEPT !.cursor = c + 2]))
                      ELSE string(Lexer_error([lx EXCEPT !.cursor = c + 2],
                                              <<"invalid escape sequence">>))
           ELSE string([lx EXCEPT !.cursor = c + 1])

RECURSIVE eat_operation(_, _)
eat_operation(t, c) ==
  IF ~done(t, c) /\ ~at(t, c, <<";">>) /\ ~at(t, c, <<"-", ">">>)
    THEN eat_operation(t, c + 1)
    ELSE c

\* An action that stops at "->" for both triggers.
action_sensitive(lx, start, k) ==
  LET t == lx.text
      cursor == lx.cursor
      c2 == eat_operation(t, cursor)
  IN [lx |-> [lx EXCEPT !.cursor = c2],
      node |-> inner("Action",
                     << leaf(k, from(t, start, cursor), start, cursor),
                        leaf("Operation", from(t, cursor, c2), cursor, c2) >>)]

\* Returns the Action node and the lexer after it.
action(lx, start, k) ==
  LET t == lx.text
      cursor == lx.cursor
      c2 == IF k = "Arrow"
              THEN eat_until(t, cursor, <<";">>)
              ELSE eat_operation(t, cursor)
  IN [lx |-> [lx EXCEPT !.cursor = c2],
      node |-> inner("Action",
                     << leaf(k, from(t, start, cursor), start, cursor),
                        leaf("Operation", from(t, cursor, c2), cursor, c2) >>)]

identifier(lx, start) ==
  LET t == lx.text
      c2 == eat_while_in(t, lx.cursor, is_id_continue)
      l2 == [lx EXCEPT !.cursor = c2]
  IN IF from(t, start, c2) = <<"i", "f">>
       THEN action(l2, start, "If")
       ELSE [lx |-> l2, node |-> leaf("Identifier", from(t, start, c2), start, c2)]

Symbols ==
  [ch \in { ":", ";", "(", ")", "{", "}", ",", "|", "~", "+" } |->
     CASE ch = ":" -> "Colon"
       [] ch = ";" -> "SemiColon"
       [] ch = "(" -> "LeftParen"
       [] ch = ")" -> "RightParen"
       [] ch = "{" -> "LeftBrace"
       [] ch = "}" -> "RightBrace"
       [] ch = "," -> "Comma"
       [] ch = "|" -> "Bar"
       [] ch = "~" -> "Tilde"
       [] ch = "+" -> "Plus"]

meta(lx) ==
  LET c2 == eat_until(lx.text, lx.cursor, <<">">>)
  IN IF done(lx.text, c2)
       THEN Found(Lexer_hint(Lexer_error([lx EXCEPT !.cursor = c2],
                                         <<"unclosed meta">>),
                             <<"consider closing the meta with '>'">>),
                  "Error")
       ELSE Found([lx EXCEPT !.cursor = c2 + 1], "Meta")

unexpected_character_peeked(lx, ch) ==
  Found(Lexer_error(Lexer_jump(lx, lx.cursor - 1),
                    <<"unexpected character '", ch, "'">>),
        "Error")

unexpected_character(lx, ch) ==
  Found(Lexer_error(lx, <<"unexpected character '", ch, "'">>), "Error")

\* The arms of the match in next() that fall through to the node built at
\* its end; l1 is the lexer with the first character eaten, l2 with two.
Lexer_match(lx) ==
  LET t == lx.text
      ch == t[lx.cursor + 1]
      c1 == lx.cursor + 1
      l1 == [lx EXCEPT !.cursor = c1]
      l2 == [lx EXCEPT !.cursor = c1 + 1]
      l3 == [lx EXCEPT !.cursor = c1 + 2]
  IN CASE ch \in is_whitespace -> whitespace(l1)
       [] ch = "/" ->
            IF at(t, c1, <<"/">>) THEN line_comment(l2)
            ELSE IF at(t, c1, <<"*">>) THEN block_comment(l2)
            ELSE unexpected_character(l1, ch)
       [] ch = "*" ->
            IF at(t, c1, <<"/">>)
              THEN Found(Lexer_hint(
                           Lexer_error(l2, <<"unexpected end of block comment">>),
                           <<"consider opening the block comment with '/*'">>),
                         "Error")
              ELSE Found(l1, "Star")
       [] ch = "\"" -> string(l1)
       [] ch \in is_numeric ->
            Found([lx EXCEPT !.cursor = eat_while_in(t, c1, is_numeric)],
                  "Integer")
       [] ch = "<" -> meta(l1)
       [] ch \in DOMAIN Symbols -> Found(l1, Symbols[ch])
       [] ch = "." ->
            IF at(t, c1, <<".">>) THEN Found(l2, "Dots") ELSE Found(l1, "Dot")
       [] ch = "?" ->
            IF at(t, c1, <<"=">>) THEN Found(l2, "LookAheadPos")
            ELSE IF at(t, c1, <<"!">>) THEN Found(l2, "LookAheadNeg")
            ELSE IF at(t, c1, <<"<", "=">>) THEN Found(l3, "LookBehindPos")
            ELSE IF at(t, c1, <<"<", "!">>) THEN Found(l3, "LookBehindNeg")
            ELSE Found(l1, "Question")
       [] OTHER -> unexpected_character(l1, ch)

\* self.error.take()
Lexer_take_kept(lx) == lx

Lexer_take(lx) == [lx EXCEPT !.error = <<>>]

\* The node built at the end of next() from what the match found.
Lexer_node(r, start) ==
  IF r.lx.error # <<>>
    THEN error_node(r.lx.error[1], from(r.lx.text, start, r.lx.cursor),
                    start, r.lx.cursor)
    ELSE leaf(r.kind, from(r.lx.text, start, r.lx.cursor), start, r.lx.cursor)

Lexer_built(r, start) == [lx |-> Lexer_take(r.lx), node |-> Lexer_node(r, start)]

\* next(): the lexer after the call and the node returned.
Lexer_next(lx) ==
  IF done(lx.text, lx.cursor)
    THEN Lexer_built(Found(lx, "End"), lx.cursor)
    ELSE IF lx.text[lx.cursor + 1] \in is_id_start
      THEN identifier(Lexer_jump(lx, lx.cursor + 1), lx.cursor)
      ELSE IF at(lx.text, lx.cursor, <<"-", ">">>)
        THEN action(Lexer_jump(lx, lx.cursor + 2), lx.cursor, "Arrow")
        ELSE Lexer_built(Lexer_match(lx), lx.cursor)

(***************************************************************************)
(* Patterns: the kinds a pattern matches and, as an Option, its name (a    *)
(* function pattern has none: its name() panics).                          *)
(***************************************************************************)
Pattern_kind(k) == [kinds |-> {k}, name |-> <<name(k)>>]

RECURSIVE join_names(_)
join_names(ks) ==
  IF Len(ks) = 1
    THEN name(ks[1])
    ELSE name(ks[1]) \o " or " \o join_names(Tail(ks))

Pattern_array(ks) ==
  [kinds |-> {ks[i] : i \in 1..Len(ks)}, name |-> <<join_names(ks)>>]

Pattern_fn(S) == [kinds |-> S, name |-> <<>>]

matches(pat, k) == k \in pat.kinds

(***************************************************************************)
(* The parser: p = [lexer, nodes, panic].  panic is "" while the program   *)
(* runs and names the failed unwrap or assertion once it has aborted; an   *)
(* aborted parser stays as it is.  An operator that stands for a part of   *)
(* a function takes what the part before it computed as a parameter.       *)
(***************************************************************************)
Parser_new(t) == [lexer |-> Lexer_new(t), nodes |-> <<>>, panic |-> ""]

Panic(p, why) == [p EXCEPT !.panic = why]

marker(p) == Len(p.nodes)

Parser_kind(p) == kind(p.nodes[Len(p.nodes)])

set_last(p, n) == [p EXCEPT !.nodes[Len(p.nodes)] = n]

RECURSIVE eat(_)

\* The body of the loop of eat(), r being what next() returned.
eat_push(p, r) ==
  IF kind(r.node) \in is_trivia
    THEN eat([p EXCEPT !.lexer = r.lx, !.nodes = Append(@, r.node)])
    ELSE [p EXCEPT !.lexer = r.lx, !.nodes = Append(@, r.node)]

\* next() opens with debug_assert!(self.error.is_none()); the parser is its
\* only caller that can abort on it.
eat(p) ==
  IF p.panic # "" THEN p
  ELSE IF p.lexer.error # <<>>
    THEN Panic(p, "assertion failed: self.error.is_none()")
  ELSE eat_push(p, Lexer_next(p.lexer))

\* An uneat() that pops the node and leaves the lexer where it is.
uneat_ahead(p) ==
  IF p.panic # "" THEN p
  ELSE IF p.nodes = <<>> THEN Panic(p, "uneat: unwrap on an empty node list")
  ELSE [p EXCEPT !.nodes = SubSeq(@, 1, Len(@) - 1)]

uneat(p) ==
  IF p.panic # "" THEN p
  ELSE IF p.nodes = <<>> THEN Panic(p, "uneat: unwrap on an empty node list")
  ELSE [p EXCEPT !.lexer = Lexer_jump(@, span(p.nodes[Len(p.nodes)])[1]),
                 !.nodes = SubSeq(@, 1, Len(@) - 1)]

\* eat_if and item return the parser and the boolean they return.
Ret(p, ok) == [p |-> p, ok |-> ok]

eat_if_matched(q, pat) ==
  IF q.panic # "" THEN Ret(q, FALSE)
  ELSE IF matches(pat, Parser_kind(q)) THEN Ret(q, TRUE)
  ELSE Ret(uneat(q), FALSE)

eat_if(p, pat) == eat_if_matched(eat(p), pat)

RECURSIVE eat_while(_, _)

eat_while_matched(q, pat) ==
  IF q.panic # "" THEN q
  ELSE IF matches(pat, Parser_kind(q)) THEN eat_while(q, pat)
  ELSE uneat(q)

eat_while(p, pat) == eat_while_matched(eat(p), pat)

convert(p, k) ==
  IF p.panic # "" THEN p
  ELSE IF p.nodes = <<>> THEN Panic(p, "convert: unwrap on an empty node list")
  ELSE set_last(p, convert_kind(p.nodes[Len(p.nodes)], k))

\* A wrap() that takes every node of the list, whatever the marker.
Parser_wrap_all(p, m, k) ==
  IF p.panic # "" THEN p
  ELSE [p EXCEPT !.nodes = <<inner(k, @)>>]

Parser_wrap(p, m, k) ==
  IF p.panic # "" THEN p
  ELSE [p EXCEPT !.nodes =
          Append(SubSeq(@, 1, IF m < Len(@) THEN m ELSE Len(@)),
                 inner(k, SubSeq(@, (IF m < Len(@) THEN m ELSE Len(@)) + 1,
                                 Len(@))))]

Parser_error(p, message) ==
  IF p.panic # "" THEN p
  ELSE IF p.nodes = <<>> THEN Panic(p, "error: unwrap on an empty node list")
  ELSE set_last(p, convert_to_error(p.nodes[Len(p.nodes)], message))

\* An expected() that names the kind of the node after its conversion.
expected_late(p, pat) ==
  IF p.panic # "" THEN p
  ELSE IF pat.name = <<>> THEN Panic(p, "cannot name a function pattern")
  ELSE IF p.nodes = <<>> THEN Panic(p, "kind: unwrap on an empty node list")
  ELSE Parser_error(p, <<"expected " \o pat.name[1] \o ", found "
                           \o name("Error")>>)

expected(p, pat) ==
  IF p.panic # "" THEN p
  ELSE IF pat.name = <<>> THEN Panic(p, "cannot name a function pattern")
  ELSE IF p.nodes = <<>> THEN Panic(p, "kind: unwrap on an empty node list")
  ELSE Parser_error(p, <<"expected " \o pat.name[1] \o ", found "
                           \o name(Parser_kind(p))>>)

\* An expect() that pushes a token that does not match back.
expect_matched_back(q, pat) ==
  IF q.panic # "" THEN q
  ELSE IF matches(pat, Parser_kind(q)) THEN q
  ELSE uneat(q)

expect_matched(q, pat) ==
  IF q.panic # "" THEN q
  ELSE IF matches(pat, Parser_kind(q)) THEN q
  ELSE expected(q, pat)

expect(p, pat) == expect_matched(eat(p), pat)

unexpected(p) ==
  IF p.panic # "" THEN p
  ELSE IF p.nodes = <<>> THEN Panic(p, "kind: unwrap on an empty node list")
  ELSE Parser_error(p, <<"unexpected " \o name(Parser_kind(p))>>)

\* A parser that adds no hint.
Parser_hint_none(p, h) == p

Parser_hint(p, h) ==
  IF p.panic # "" \/ p.nodes = <<>> THEN p
  ELSE set_last(p, hints(p.nodes[Len(p.nodes)], h))

Parser_finish(p, k) == inner(k, p.nodes)

Marker_prev(p, m) ==
  IF p.panic # "" THEN p
  ELSE IF m = 0 THEN Panic(p, "assertion failed: self.0 > 0")
  ELSE p

(***************************************************************************)
(* The grammar.                                                            *)
(***************************************************************************)
\* The optional second integer of a brace indicator, b being what
\* eat_if(Comma) returned.
brace_max(b) ==
  IF b.ok THEN eat_if(b.p, Pattern_kind("Integer")).p ELSE b.p

\* The range of a brace indicator, the left brace being the last node.
brace_indicator(p, start) ==
  Parser_wrap(
    Parser_hint(
      expect(brace_max(eat_if(expect(p, Pattern_kind("Integer")),
                              Pattern_kind("Comma"))),
             Pattern_kind("RightBrace")),
      <<"consider closing the range with '}'">>),
    start, "BraceIndicator")

repeating_indicator(p, start) ==
  IF Parser_kind(p) = "LeftBrace" THEN brace_indicator(p, start) ELSE p

repeating_wrap(p, start) ==
  IF p.panic # "" \/ start = 0
    THEN Marker_prev(p, start)
    ELSE Parser_wrap(p, start - 1, "Repeating")

\* The repeating indicator after an atom, r being what eat_if(is_prefix)
\* returned and start the marker taken before it.
repeating_matched(r, start) ==
  IF ~r.ok
    THEN r.p
    ELSE repeating_wrap(
           eat_if(repeating_indicator(r.p, start), Pattern_kind("Question")).p,
           start)

repeating(p) == repeating_matched(eat_if(p, Pattern_fn(is_prefix)), marker(p))

item_wrapper(p, wrapper) ==
  IF wrapper # <<>>
    THEN Parser_wrap(p, wrapper[1].start, wrapper[1].kind)
    ELSE p

\* An item() that takes the indicator before it wraps.
item_matched_loose(p, wrapper) ==
  IF p.panic # "" THEN Ret(p, FALSE)
  ELSE Ret(item_wrapper(repeating(p), wrapper), TRUE)

\* What follows the match of item(): the wrapper, then the indicator.
item_matched(p, wrapper) ==
  IF p.panic # "" THEN Ret(p, FALSE)
  ELSE Ret(repeating(item_wrapper(p, wrapper)), TRUE)

\* The String arm, r being what eat_if(Dots) returned.
item_range(r, start) ==
  IF r.ok
    THEN Parser_wrap(
           Parser_hint(expect(r.p, Pattern_kind("String")),
                       <<"'..' can only connect two string literals">>),
           start, "Range")
    ELSE r.p

\* The Tilde arm, r being what the nested item() returned.
item_converse(r) ==
  IF ~r.ok
    THEN Parser_hint(
           unexpected(r.p),
           <<"consider using converse indicator '~' before an expression">>)
    ELSE r.p

RECURSIVE item(_, _)
RECURSIVE expression(_)

\* The LeftParen arm, r being what eat_if(is_looking) returned.
item_group(r, start) ==
  Parser_wrap(expect(expression(r.p), Pattern_kind("RightParen")),
              start, IF r.ok THEN "Looking" ELSE "Group")

\* The match of item(), p being the parser after eat() and k the kind eaten.
item_match(p, k, start) ==
  CASE k \in {"Meta", "Identifier", "Dot", "Bar"} -> p
    [] k = "String" -> item_range(eat_if(p, Pattern_kind("Dots")), start)
    [] k = "Tilde" ->
         item_converse(item(p, <<[start |-> start, kind |-> "Converse"]>>))
    [] k = "LeftParen" -> item_group(eat_if(p, Pattern_fn(is_looking)), start)
    [] k = "LeftBrace" ->
         Parser_hint(unexpected(p),
                     <<"range should be attached to an expression">>)
    [] k = "RightBrace" ->
         Parser_hint(unexpected(p), <<"consider starting a range with '{'">>)
    [] OTHER -> unexpected(p)

\* An item() that leaves a terminator in the list.
item_eaten_kept(p, start, wrapper) ==
  IF p.panic # "" THEN Ret(p, FALSE)
  ELSE IF Parser_kind(p) \in {"RightParen", "Action", "End", "SemiColon"}
    THEN Ret(p, FALSE)
  ELSE item_matched(item_match(p, Parser_kind(p), start), wrapper)

item_eaten(p, start, wrapper) ==
  IF p.panic # "" THEN Ret(p, FALSE)
  ELSE IF Parser_kind(p) \in {"RightParen", "Action", "End", "SemiColon"}
    THEN Ret(uneat(p), FALSE)
  ELSE item_matched(item_match(p, Parser_kind(p), start), wrapper)

item(p, wrapper) == item_eaten(eat(p), marker(p), wrapper)

expression_loop(r) ==
  IF r.ok /\ r.p.panic = "" THEN expression(r.p) ELSE r.p

expression(p) == expression_loop(item(p, <<>>))

\* The expression of a rule left as it is, without a Definition around it.
definition_bare(p) == expression(p)

definition(p) == Parser_wrap(expression(p), marker(p), "Definition")

rule(p) ==
  Parser_wrap(
    Parser_hint(
      expect(
        eat_while(
          definition(
            expect(convert(expect(p, Pattern_array(<<"Identifier", "If">>)),
                           "Identifier"),
                   Pattern_kind("Colon"))),
          Pattern_kind("Action")),
        Pattern_kind("SemiColon")),
      <<"consider ending the rule with ';'">>),
    marker(p), "Rule")

\* One iteration of the loop of parse(): the parser after it, and whether
\* the loop was left by its break; q is the parser after eat_while.
parse_trivia(q) ==
  IF q.panic # "" \/ Lexer_done(q.lexer)
    THEN [p |-> q, break |-> TRUE]
    ELSE [p |-> rule(q), break |-> FALSE]

parse_step(p) == parse_trivia(eat_while(p, Pattern_fn(is_trivia)))

RECURSIVE parse_loop(_)

parse_next(r) == IF r.break \/ r.p.panic # "" THEN r.p ELSE parse_loop(r.p)

parse_loop(p) == parse_next(parse_step(p))

parse(t) == Parser_finish(parse_loop(Parser_new(t)), "Root")

(***************************************************************************)
(* The segmenter: parse_content() cuts a document into Text and Code       *)
(* items.  sg = [text, cursor, start, items] holds the content, the cursor *)
(* of the scanner s, the local start and the items pushed so far.          *)
(***************************************************************************)
Item_Text(txt) == [tag |-> "Text", text |-> txt]

Item_Code(code) == [tag |-> "Code", code |-> code]

Segmenter_new(content) ==
  [text |-> content, cursor |-> 0, start |-> 0, items |-> <<>>]

\* A closing fence of three backticks whatever the opening fence was.
Backticks_three(n) == <<"'", "'", "'">>

\* The slice cs.eat_while('`') returned, n backticks long.
Backticks(n) == [i \in 1..n |-> "'"]

FenceWord == <<"s", "y", "n", "t", "a", "x", "\n">>

\* The number of backticks at the cursor, as cs.eat_while('`') eats them.
fence_ticks(sg) == eat_while_in(sg.text, sg.cursor, {"'"}) - sg.cursor

\* The condition of the if, n being the number of backticks eaten.
fence_opens(sg, n) == n >= 3 /\ at(sg.text, sg.cursor + n, FenceWord)

\* cs.eat_if(backticks), e being the cursor of cs.
fence_closed(t, e, n) == IF at(t, e, Backticks(n)) THEN e + n ELSE e

\* The then-branch from the second push on: st is the cursor after the
\* opening fence and e the cursor after eat_until.
fence_push(sg, n, st, e) ==
  [sg EXCEPT
     !.items = @ \o << Item_Text(from(sg.text, sg.start, sg.cursor)),
                       Item_Code(parse(from(sg.text, st, e))) >>,
     !.start = fence_closed(sg.text, e, n),
     !.cursor = fence_closed(sg.text, e, n)]

fence_body(sg, n, st) ==
  fence_push(sg, n, st, eat_until(sg.text, st, Backticks(n)))

\* One iteration of the while loop, n being the number of backticks at
\* the cursor.
content_branch(sg, n) ==
  IF fence_opens(sg, n)
    THEN fence_body(sg, n, sg.cursor + n + Len(FenceWord))
    ELSE [sg EXCEPT !.cursor = @ + 1]

content_step(sg) == content_branch(sg, fence_ticks(sg))

\* A return without the push after the loop.
content_finish_bare(sg) == sg

\* The push after the loop.
content_finish(sg) ==
  [sg EXCEPT !.items = Append(@, Item_Text(from(sg.text, sg.start, sg.cursor)))]

RECURSIVE content_loop(_)
content_loop(sg) ==
  IF done(sg.text, sg.cursor)
    THEN content_finish(sg)
    ELSE content_loop(content_step(sg))

parse_content(content) == content_loop(Segmenter_new(content)).items

(***************************************************************************)
(* The rule table: a map from the name of a rule to the locations of its   *)
(* definitions, as a function on the names it holds.  A string that the    *)
(* program builds (a location, the rendered markup) is a sequence of       *)
(* pieces: the fixed words of a format string as one piece each, the       *)
(* characters of a text one by one.                                        *)
(***************************************************************************)
Page(href, items) == [href |-> href, items |-> items]

rule_hash(nm) == <<"syntax-rule-">> \o nm

\* A table that keeps one location for a name: the last one.
rules_push_last(rules, nm, href) ==
  IF nm \in DOMAIN rules
    THEN [rules EXCEPT ![nm] = <<href>>]
    ELSE rules @@ (nm :> <<href>>)

\* rules.get_mut(name), then push or insert.
rules_push(rules, nm, href) ==
  IF nm \in DOMAIN rules
    THEN [rules EXCEPT ![nm] = Append(@, href)]
    ELSE rules @@ (nm :> <<href>>)

\* The text of the first Identifier among the nodes, as an Option.
RECURSIVE first_identifier(_)
first_identifier(nodes) ==
  IF nodes = <<>> THEN <<>>
  ELSE IF kind(Head(nodes)) = "Identifier" THEN <<text(Head(nodes))>>
  ELSE first_identifier(Tail(nodes))

\* The loop over the children of a rule, nm being its first Identifier.
find_rules_sub(rules, nm, page, root) ==
  IF nm = <<>>
    THEN rules
    ELSE rules_push(rules, nm[1],
                    root \o page.href \o <<"#">> \o rule_hash(nm[1]))

\* A table that takes the erroneous rules in as well.
find_rules_node_any(rules, node, page, root) ==
  IF kind(node) = "Rule"
    THEN find_rules_sub(rules, first_identifier(children(node)), page, root)
    ELSE rules

find_rules_node(rules, node, page, root) ==
  IF kind(node) = "Rule" /\ ~erroneous(node)
    THEN find_rules_sub(rules, first_identifier(children(node)), page, root)
    ELSE rules

RECURSIVE find_rules_nodes(_, _, _, _)
find_rules_nodes(rules, nodes, page, root) ==
  IF nodes = <<>>
    THEN rules
    ELSE find_rules_nodes(find_rules_node(rules, Head(nodes), page, root),
                          Tail(nodes), page, root)

\* parse() returns a Root: the debug assertion on code.kind() holds.
find_rules_item(rules, it, page, root) ==
  IF it.tag = "Code"
    THEN find_rules_nodes(rules, children(it.code), page, root)
    ELSE rules

RECURSIVE find_rules_items(_, _, _, _)
find_rules_items(rules, items, page, root) ==
  IF items = <<>>
    THEN rules
    ELSE find_rules_items(find_rules_item(rules, Head(items), page, root),
                          Tail(items), page, root)

\* A table read off the first page alone.
find_rules_pages_first(rules, pages, root) ==
  IF pages = <<>>
    THEN rules
    ELSE find_rules_items(rules, Head(pages).items, Head(pages), root)

RECURSIVE find_rules_pages(_, _, _)
find_rules_pages(rules, pages, root) ==
  IF pages = <<>>
    THEN rules
    ELSE find_rules_pages(
           find_rules_items(rules, Head(pages).items, Head(pages), root),
           Tail(pages), root)

find_rules(pages, root) == find_rules_pages(<<>>, pages, root)

(***************************************************************************)
(* The renderer.                                                           *)
(***************************************************************************)
\* html_escape::encode_safe on one character.  (It escapes the apostrophe
\* too, a character the texts of the model do not hold.)
encode_safe_char(c) ==
  CASE c = "&" -> "&amp;"
    [] c = "<" -> "&lt;"
    [] c = ">" -> "&gt;"
    [] c = "\"" -> "&quot;"
    [] c = "/" -> "&#x2F;"
    [] OTHER -> c

encode_safe(txt) == [i \in 1..Len(txt) |-> encode_safe_char(txt[i])]

\* str::escape_default on one piece.  The fixed words of the messages hold
\* no character that it escapes.
escape_default_piece(c) ==
  CASE c = "\"" -> "\\\""
    [] c = "\\" -> "\\\\"
    [] c = "\n" -> "\\n"
    [] c = "\r" -> "\\r"
    [] c = "\t" -> "\\t"
    [] c = "\f" -> "\\u{c}"
    [] OTHER -> c

escape_default(txt) == [i \in 1..Len(txt) |-> escape_default_piece(txt[i])]

\* text.trim().is_empty()
trim_is_empty(txt) == \A i \in 1..Len(txt) : txt[i] \in is_whitespace

\* The hints, each escaped and quoted, joined with commas.
RECURSIVE join_hints(_)
join_hints(hs) ==
  IF hs = <<>> THEN <<>>
  ELSE IF Len(hs) = 1 THEN <<"\"">> \o escape_default(hs[1]) \o <<"\"">>
  ELSE <<"\"">> \o escape_default(hs[1]) \o <<"\"", ",">>
         \o join_hints(Tail(hs))

wrap_error_raw(code, error) ==
  <<"<span class=\"syntax-error\" message=\"">>
    \o escape_default(error.message)
    \o <<"\" hints=\"[">> \o join_hints(error.hints) \o <<"]\">">>
    \o (IF trim_is_empty(code) THEN <<"[error]">> ELSE code)
    \o <<"</span>">>

wrap_node_raw(code, cls) ==
  <<"<span class=\"syntax-" \o cls \o "\">">> \o encode_safe(code)
    \o <<"</span>">>

wrap_error(error) == wrap_error_raw(text(error), error.error)

\* A renderer that links to the first location whenever there is one.
wrap_identifier_first(rules, nm) ==
  IF nm \in DOMAIN rules
    THEN <<"<a class=\"syntax-link\" href=\"">> \o rules[nm][1] \o <<"\">">>
           \o wrap_node_raw(nm, "identifier") \o <<"</a>">>
    ELSE wrap_error_raw(nm, SyntaxError_new(
           <<"rule '">> \o nm \o <<"' does not exist">>))

\* wrap_identifier on an Identifier of text nm.
wrap_identifier(rules, nm) ==
  IF nm \in DOMAIN rules
    THEN IF Len(rules[nm]) > 1
      THEN wrap_error_raw(nm, SyntaxError_new(
             <<"found multiple definitions for rule '">> \o nm \o <<"'">>))
      ELSE <<"<a class=\"syntax-link\" href=\"">> \o rules[nm][1] \o <<"\">">>
             \o wrap_node_raw(nm, "identifier") \o <<"</a>">>
    ELSE wrap_error_raw(nm, SyntaxError_new(
           <<"rule '">> \o nm \o <<"' does not exist">>))

\* The class of the kinds that wrap() renders as one span.
wrap_class(k) ==
  CASE k = "Comment" -> "comment"
    [] k = "String" -> "string"
    [] k = "Integer" -> "integer"
    [] k = "Meta" -> "meta"
    [] k = "Operation" -> "action"
    [] k = "If" -> "keyword"
    [] k \in is_operator -> "operator"

RECURSIVE wrap(_, _)

\* The children rendered one after the other and joined.
RECURSIVE wrap_children(_, _)
wrap_children(rules, nodes) ==
  IF nodes = <<>>
    THEN <<>>
    ELSE wrap(rules, Head(nodes)) \o wrap_children(rules, Tail(nodes))

wrap_kind(rules, node, k) ==
  CASE k = "Error" -> wrap_error(node)
    [] k = "Whitespace" -> text(node)
    [] k = "Identifier" -> wrap_identifier(rules, text(node))
    [] k \in {"Comment", "String", "Integer", "Meta", "Operation", "If"}
         \cup is_operator -> wrap_node_raw(text(node), wrap_class(k))
    [] OTHER -> wrap_children(rules, children(node))

wrap(rules, node) == wrap_kind(rules, node, kind(node))

\* parse_rule, nm being the Option that find() returned; it is unwrapped.
parse_rule_named(rules, rule_node, nm) ==
  <<"<span class=\"syntax-rule\" rule=\"">> \o rule_hash(nm[1])
    \o <<"\"><a name=\"", "#">> \o rule_hash(nm[1]) \o <<"\"></a>">>
    \o wrap(rules, rule_node) \o <<"</span>">>

parse_rule(rules, rule_node) ==
  parse_rule_named(rules, rule_node, first_identifier(children(rule_node)))

\* A renderer that gives every Rule the span and the anchor.
parse_code_node_all(rules, node) ==
  IF kind(node) = "Rule"
    THEN parse_rule(rules, node)
    ELSE wrap(rules, node)

parse_code_node(rules, node) ==
  IF kind(node) = "Rule" /\ ~erroneous(node)
    THEN parse_rule(rules, node)
    ELSE wrap(rules, node)

RECURSIVE parse_code_nodes(_, _)
parse_code_nodes(rules, nodes) ==
  IF nodes = <<>>
    THEN <<>>
    ELSE parse_code_node(rules, Head(nodes))
           \o parse_code_nodes(rules, Tail(nodes))

parse_code(rules, code) ==
  <<"<pre><code class=\"syntax\">">>
    \o parse_code_nodes(rules, children(code)) \o <<"</code></pre>">>

\* Whether the unwrap of parse_rule fails on a child of the code.
parse_code_panics(code) ==
  \E i \in 1..Len(children(code)) :
    /\ kind(children(code)[i]) = "Rule"
    /\ ~erroneous(children(code)[i])
    /\ first_identifier(children(children(code)[i])) = <<>>

(***************************************************************************)
(* run(): the book is the sequence of its chapters, each with its path (an *)
(* Option), its content and the index of the chapter it is a sub-item of   *)
(* (0 for a section of the book); only the chapters among the book items   *)
(* are kept, as the iterators do.  rn = [phase, stack, pages, rules, next, *)
(* panic, visited, written] holds the locals of run(): the stack of the    *)
(* iterator in use, the pages, the rule table, the position of the         *)
(* iterator parsed_pages, and the chapters that recur_iter() and           *)
(* recur_iter_mut() have yielded so far.                                   *)
(***************************************************************************)
Chapter(path, content, parent) ==
  [path |-> path, content |-> content, parent |-> parent]

\* Tree::children of a chapter, or the chapters among the sections (of 0).
sub_chapters(bk, id) ==
  SelectSeq([i \in 1..Len(bk) |-> i], LAMBDA c : bk[c].parent = id)

\* TreeIter::next on a stack that is not empty: the stack after it.
TreeIter_next(bk, stack) ==
  SubSeq(stack, 1, Len(stack) - 1) \o sub_chapters(bk, stack[Len(stack)])

\* A TreeIterMut::next that puts the children under the rest of the stack.
TreeIterMut_next_under(bk, stack) ==
  sub_chapters(bk, stack[Len(stack)]) \o SubSeq(stack, 1, Len(stack) - 1)

\* TreeIterMut::next on a stack that is not empty: the stack after it.
TreeIterMut_next(bk, stack) ==
  SubSeq(stack, 1, Len(stack) - 1) \o sub_chapters(bk, stack[Len(stack)])

Run_new(bk) ==
  [phase |-> "pages", stack |-> sub_chapters(bk, 0), pages |-> <<>>,
   rules |-> <<>>, next |-> 1, panic |-> "", visited |-> <<>>,
   written |-> <<>>]

\* The body of the first loop, id being the chapter the iterator yielded.
run_push_page(rn, bk, id) ==
  IF bk[id].path = <<>>
    THEN [rn EXCEPT !.panic = "called Option::unwrap() on a None value"]
    ELSE [rn EXCEPT
            !.stack = TreeIter_next(bk, @),
            !.pages = Append(@, Page(bk[id].path[1],
                                     parse_content(bk[id].content))),
            !.visited = Append(@, id)]

\* let rules = find_rules(..); the iterator parsed_pages is created and
\* recur_iter_mut() starts.
run_find_rules(rn, bk, root) ==
  [rn EXCEPT !.phase = "write",
             !.rules = find_rules(rn.pages, root),
             !.stack = sub_chapters(bk, 0)]

\* A closure that keeps the Code items only.
render_item_code(rules, it) ==
  IF it.tag = "Text" THEN <<>> ELSE parse_code(rules, it.code)

render_item(rules, it) ==
  IF it.tag = "Text" THEN it.text ELSE parse_code(rules, it.code)

\* The closure of parsed_pages on the items of one page, joined.
RECURSIVE render_items(_, _)
render_items(rules, items) ==
  IF items = <<>>
    THEN <<>>
    ELSE render_item(rules, Head(items)) \o render_items(rules, Tail(items))

render_panics(items) ==
  \E i \in 1..Len(items) :
    items[i].tag = "Code" /\ parse_code_panics(items[i].code)

\* The body of the second loop on the locals.
run_write(rn, bk, id) ==
  IF rn.next > Len(rn.pages) \/ render_panics(rn.pages[rn.next].items)
    THEN [rn EXCEPT !.panic = "called Option::unwrap() on a None value"]
    ELSE [rn EXCEPT !.stack = TreeIterMut_next(bk, @),
                    !.next = @ + 1,
                    !.written = Append(@, id)]

(***************************************************************************)
(* Bounds and input alphabets.                                             *)
(***************************************************************************)
MaxLexLen == 3

MaxFrags == 2

MaxSegFrags == 4

MaxPages == 3

MaxCalls == 3

RECURSIVE Flatten(_)
Flatten(ss) == IF ss = <<>> THEN <<>> ELSE Head(ss) \o Flatten(Tail(ss))

SeqsUpTo(S, n) == UNION { [1..m -> S] : m \in 0..n }

LexChars ==
  { " ", "\n", "/", "*", "\"", "\\", "u", "{", "}", "1", "i", "f", "<", ">",
    "-", ";", ".", "?", "=", "%" }

\* An opened block comment and what may follow the opener.
CommentInputs ==
  { <<"/", "*">> \o body : body \in SeqsUpTo({ "*", "/", "1" }, MaxLexLen) }

\* A trigger of an action and what may follow it.
ActionInputs ==
  { trigger \o body :
      trigger \in { <<"i", "f">>, <<"-", ">">> },
      body \in SeqsUpTo({ "-", ">", ";", "1" }, MaxLexLen) }

LexInputs == SeqsUpTo(LexChars, MaxLexLen) \cup CommentInputs \cup ActionInputs

ParseFrags ==
  { <<"a">>, <<":">>, <<";">>, <<" ">>, <<"\"", "s", "\"">>, <<"\"">>,
    <<"i", "f">>, <<"-", ">">>, <<"~">>, <<"(">>, <<")">>, <<"*">>, <<"{">>,
    <<"}">>, <<"1">>, <<",">>, <<".", ".">>, <<"?">>, <<"?", "=">>, <<"|">>,
    <<"%">> }

ParsePrefixes ==
  { <<>>, <<"a", ":">>, <<"a", ":", "(">>, <<"a", ":", "~">>,
    <<"a", ":", "\"", "s", "\"">>, <<"a", ":", "a", "{">> }

\* The items of a well-formed definition: the atoms, a range, a converse,
\* a group, a lookahead, and atoms with each repeating indicator.
RuleItems ==
  { <<"a">>, <<"\"", "s", "\"">>, <<"<", "m", ">">>, <<".">>, <<"|">>,
    <<"\"", "s", "\"", ".", ".", "\"", "t", "\"">>, <<"~", "a">>,
    <<"(", "a", ")">>, <<"(", "?", "=", "a", ")">>, <<"a", "*">>,
    <<"a", "?">>, <<"a", "+", "?">>, <<"a", "{", "1", "}">>,
    <<"a", "{", "1", ",", "}", "?">>, <<"a", "{", "1", ",", "2", "}">> }

\* The items one after the other, a space before each.
RECURSIVE Spaced(_)
Spaced(is) ==
  IF is = <<>> THEN <<>> ELSE <<" ">> \o Head(is) \o Spaced(Tail(is))

\* The rules made of a name, a colon, items and a semicolon.
WellFormedRules ==
  { <<"a", ":">> \o Spaced(is) \o <<";">> :
      is \in SeqsUpTo(RuleItems, MaxFrags) }

\* The same rules without their semicolon.
OpenRules ==
  { <<"a", ":">> \o Spaced(is) : is \in SeqsUpTo(RuleItems, MaxFrags) }

\* A converse of an item x of kind xk, then a space or none, then an
\* indicator of kind ik.
ConverseCases ==
  { [x |-> c[1], xk |-> c[2], sp |-> sp, ind |-> i[1], ik |-> i[2]] :
      c \in { <<<<"b">>, "Identifier">>, <<<<"\"", "s", "\"">>, "String">>,
              <<<<"(", "b", ")">>, "Group">>, <<<<".">>, "Dot">>,
              <<<<"<", "m", ">">>, "Meta">> },
      sp \in { <<>>, <<" ">> },
      i \in { <<<<"*">>, "Star">>, <<<<"+">>, "Plus">>,
              <<<<"?">>, "Question">>,
              <<<<"{", "1", "}">>, "BraceIndicator">> } }

ConverseText(c) == <<"a", ":", "~">> \o c.x \o c.sp \o c.ind \o <<";">>

ConverseRules == { ConverseText(c) : c \in ConverseCases }

\* A converse without an item: what follows the tilde ends the expression.
BareConverses ==
  { <<"a", ":", "~">> \o sp \o term :
      sp \in { <<>>, <<" ">> },
      term \in { <<";">>, <<")">>, <<"-", ">", "x", ";">>, <<>> } }

\* Rules that end in or after a string literal, closed or not.
StringChars == { "s", "\\", "\"", "u", "{", "%" }

StringRules ==
  { <<"a", ":", " ", "\"">> \o body :
      body \in SeqsUpTo(StringChars, MaxFrags + 1) }

\* "foo: bar;", "foo: bar", "foo: \"abc;" and "if: bar;".
FooBar == <<"f", "o", "o", ":", " ", "b", "a", "r", ";">>

FooBarOpen == <<"f", "o", "o", ":", " ", "b", "a", "r">>

FooAbcOpen == <<"f", "o", "o", ":", " ", "\"", "a", "b", "c", ";">>

IfBar == <<"i", "f", ":", " ", "b", "a", "r", ";">>

\* "a:\"s\" *;"
StringStar == <<"a", ":", "\"", "s", "\"", " ", "*", ";">>

\* The texts and the patterns of the machine of the parser's methods.
MethodInputs ==
  { <<" ", "a">>,
    <<"a", " ", "/", "*", "*", "/", "b">>,
    <<" ", "-", ">", "x", ";">>,
    <<"i", "f", " ", "x", "-", ">", "y">>,
    <<"%", " ", "%">>,
    <<"\"", "s">>,
    <<"\"", "s", "\"", " ", ".", ".", "1">>,
    <<"~", "a", "*", ";">>,
    <<"~", ")">>,
    <<"(", "a", ")", ";">>,
    <<" ", ")", "a">>,
    <<";", "a">>,
    <<"a", ":", "(", "b", ")", "-", ">", "x", ";", ";", "c", ":", ";">>,
    <<"a", ":", "b", ")", ";">>,
    <<"a", ":", "\"", "s", "\"", ".", ".", ";">>,
    <<"a", ":", "b", "{", "1", ")", ";">>,
    <<>> }

MethodPatterns == { Pattern_kind("Identifier"), Pattern_kind("SemiColon") }

\* Texts of three rules, for the loop of parse().
ThreeRules ==
  { <<"a", ":", ";", "b", ":", ";", "c", ":", ";">>,
    <<"a", ":", "b", ";", " ", "b", ":", ";", "\n", "c", ":", "\"", "s", "\"", ";">> }

\* A rule with an empty definition, then an open group before an action.
EmptyThenOpen == <<"a", ":", ";", "b", ":", "(", "-", ">">>

ParseInputs ==
  { pre \o Flatten(fs) : pre \in ParsePrefixes,
                         fs \in SeqsUpTo(ParseFrags, MaxFrags) }
    \cup WellFormedRules
    \cup OpenRules
    \cup StringRules
    \cup ConverseRules
    \cup BareConverses
    \cup { FooBar, FooBarOpen, FooAbcOpen, IfBar, StringStar, EmptyThenOpen }

SegFrags ==
  { <<"'">>, <<"'", "'", "'">>, <<"'", "'", "'", "'">>,
    <<"s", "y", "n", "t", "a", "x", "\n">>, <<"a", ":", ";">>,
    <<"x">>, <<"'", "'", "'", "\n">> }

SegInputs == { Flatten(fs) : fs \in SeqsUpTo(SegFrags, MaxSegFrags) }

Fenced(body) == <<"'", "'", "'">> \o FenceWord \o body \o <<"'", "'", "'">>

\* A rule foo; a rule bar that refers to foo and to baz, between two
\* texts; a rule foo with a stray brace, a rule baz and a rule foo without
\* its semicolon; two rules foo.
DocFoo == Fenced(<<"f", "o", "o", ":", ";">>)

DocBar ==
  <<"x">> \o Fenced(<<"b", "a", "r", ":", "f", "o", "o", " ", "b", "a", "z",
                      ";">>) \o <<"y">>

DocErr ==
  Fenced(<<"f", "o", "o", ":", "}", ";", "b", "a", "z", ":", ";",
           "f", "o", "o", ":">>)

DocTwice == Fenced(<<"f", "o", "o", ":", ";", "f", "o", "o", ":", ";">>)

\* A rule foo with an ampersand, a character of no token, in it.
DocRaw == Fenced(<<"f", "o", "o", ":", "&", ";">>)

\* What a chapter can be: a draft chapter has no path.
ChapterChoices ==
  { [draft |-> FALSE, content |-> DocFoo],
    [draft |-> FALSE, content |-> DocBar],
    [draft |-> FALSE, content |-> DocErr],
    [draft |-> FALSE, content |-> DocTwice],
    [draft |-> TRUE, content |-> <<"x">>] }

PathOf(i) == <<"p", ToString(i), ".", "m", "d">>

\* The books of n chapters: every choice of chapters, every nesting.
BooksOf(n) ==
  { [i \in 1..n |->
       Chapter(IF cs[i].draft THEN <<>> ELSE <<PathOf(i)>>, cs[i].content,
               ps[i])] :
    cs \in [1..n -> ChapterChoices],
    ps \in { f \in [1..n -> 0..n] : \A i \in 1..n : f[i] < i } }

\* The books of one chapter or two with the ampersand in a rule.
RawBooks ==
  { <<Chapter(<<PathOf(1)>>, DocRaw, 0)>>,
    <<Chapter(<<PathOf(1)>>, DocFoo, 0), Chapter(<<PathOf(2)>>, DocRaw, 1)>> }

Books == UNION { BooksOf(n) : n \in 0..MaxPages } \cup RawBooks

Roots == { <<"/">>, <<"/", "b", "/">> }

(***************************************************************************)
(* The lexer machine: next() called again and again on one text.           *)
(***************************************************************************)
LexerIdle == lexText = <<>> /\ lexState = Lexer_new(<<>>) /\ lexNode = <<>>

\* A call of a method of the parser: its name, the parser before it, the
\* boolean it returned, as an Option the token its eat() read (for uneat
\* the node it popped), the marker or, as an Option, the pattern it was
\* given, and the same of the call before it with the cursor it started
\* from.
Call(op, before, ok, read, arg, prior, steps) ==
  [op |-> op, before |-> before, ok |-> ok, read |-> read, arg |-> arg,
   prior |-> prior, steps |-> steps]

NoPrior == [op |-> "none", ok |-> FALSE, read |-> <<>>, at |-> 0]

NoCall == Call("none", Parser_new(<<>>), FALSE, <<>>, 0, NoPrior, 0)

ParserIdle ==
  /\ parseText = <<>>
  /\ parser = Parser_new(<<>>)
  /\ parsed = <<>>
  /\ called = NoCall

SegmenterIdle ==
  seg = Segmenter_new(<<>>) /\ segHanded = <<>> /\ segDone = FALSE

RunIdle == book = <<>> /\ runRoot = <<>> /\ run = Run_new(<<>>)

LexerInit ==
  /\ lexText \in LexInputs
  /\ lexState = Lexer_new(lexText)
  /\ lexNode = <<>>
  /\ ParserIdle
  /\ SegmenterIdle
  /\ RunIdle

LexNextStep(r) ==
  /\ lexState' = r.lx
  /\ lexNode' = <<r.node>>
  /\ UNCHANGED <<lexText, parserVars, segVars, runVars>>

LexNext == LexNextStep(Lexer_next(lexState))

LexerSpec == LexerInit /\ [][LexNext]_vars

(***************************************************************************)
(* The parser machine: parse() on one text, one iteration of its loop at   *)
(* a time, then finish().                                                  *)
(***************************************************************************)
ParserInit ==
  /\ parseText \in ParseInputs
  /\ parser = Parser_new(parseText)
  /\ parsed = <<>>
  /\ called = NoCall
  /\ LexerIdle
  /\ SegmenterIdle
  /\ RunIdle

\* r is what the iteration returns.
ParseRuleStep(r) ==
  /\ ~r.break
  /\ parser' = r.p
  /\ UNCHANGED <<parseText, parsed, called, lexerVars, segVars, runVars>>

ParseRule ==
  /\ parsed = <<>>
  /\ parser.panic = ""
  /\ ParseRuleStep(parse_step(parser))

ParseFinishStep(r) ==
  /\ r.break
  /\ parser' = r.p
  /\ parsed' = IF r.p.panic = "" THEN <<Parser_finish(r.p, "Root")>> ELSE <<>>
  /\ UNCHANGED <<parseText, called, lexerVars, segVars, runVars>>

ParseFinish ==
  /\ parsed = <<>>
  /\ parser.panic = ""
  /\ ParseFinishStep(parse_step(parser))

ParserSpec == ParserInit /\ [][ParseRule \/ ParseFinish]_vars

(***************************************************************************)
(* The machine of the parser's methods: on one text, the calls that the    *)
(* grammar functions make on a Parser, one call at a time.                 *)
(***************************************************************************)
MethodsInit ==
  /\ parseText \in MethodInputs \cup ParseInputs \cup ThreeRules
  /\ parser = Parser_new(parseText)
  /\ parsed = <<>>
  /\ called = NoCall
  /\ LexerIdle
  /\ SegmenterIdle
  /\ RunIdle

\* The call before: at is the cursor it started from.
Prior ==
  [op |-> called.op, ok |-> called.ok, read |-> called.read,
   at |-> called.before.lexer.cursor]

Last(ns) == ns[Len(ns)]

\* The call op has turned the parser into q and returned ok.
Returned(op, q, ok, read, m) ==
  /\ parser' = q
  /\ called' = Call(op, parser, ok, read, m, Prior, called.steps + 1)
  /\ UNCHANGED <<parseText, parsed, lexerVars, segVars, runVars>>

\* The methods are called one by one on the texts of MethodInputs; on the
\* other texts the machine runs the loop of parse() only.
CanCall ==
  /\ parser.panic = ""
  /\ called.steps < MaxCalls
  /\ parseText \in MethodInputs

CallEatDone(q) == Returned("eat", q, TRUE, <<Last(q.nodes)>>, 0)

CallEat == CanCall /\ CallEatDone(eat(parser))

\* The grammar calls uneat() right after an eat() only.
CallUneat ==
  /\ CanCall
  /\ called.op = "eat"
  /\ Returned("uneat", uneat(parser), TRUE, <<Last(parser.nodes)>>, 0)

CallEatIfDone(r, q, pat) ==
  Returned("eat_if", r.p, r.ok, <<Last(q.nodes)>>, <<pat>>)

CallEatIf ==
  /\ CanCall
  /\ \E pat \in MethodPatterns :
       CallEatIfDone(eat_if(parser, pat), eat(parser), pat)

CallExpectDone(q, e, pat) ==
  Returned("expect", q, matches(pat, kind(Last(e.nodes))),
           <<Last(e.nodes)>>, <<pat>>)

CallExpect ==
  /\ CanCall
  /\ \E pat \in MethodPatterns :
       CallExpectDone(expect(parser, pat), eat(parser), pat)

CallWrap ==
  /\ CanCall
  /\ \E m \in 0..(Len(parser.nodes) + 1) :
       Returned("wrap", Parser_wrap(parser, m, "Group"), TRUE, <<>>, m)

CallItemDone(r, q) == Returned("item", r.p, r.ok, <<Last(q.nodes)>>, 0)

CallItem == CanCall /\ CallItemDone(item(parser, <<>>), eat(parser))

\* rule() is called where a rule may start: after the trivia.
CallRuleDone(q, e) == Returned("rule", q, TRUE, <<Last(e.nodes)>>, 0)

\* The loop of parse() goes on: the lexer is not done after the trivia.
\* (The count of rules cannot pass the length of the text.)
RuleEnabled ==
  /\ parser.panic = ""
  /\ called.steps < Len(parseText)
  /\ called.op \in {"none", "rule"}
  /\ ~Lexer_done(eat_while(parser, Pattern_fn(is_trivia)).lexer)

CallRule ==
  /\ RuleEnabled
  /\ CallRuleDone(rule(eat_while(parser, Pattern_fn(is_trivia))),
                  eat(parser))

MethodsNext ==
  \/ CallRule
  \/ CallEat
  \/ CallUneat
  \/ CallEatIf
  \/ CallExpect
  \/ CallWrap
  \/ CallItem

MethodsSpec == MethodsInit /\ [][MethodsNext]_vars

\* parse() goes on with its loop as long as the lexer is not done: weak
\* fairness of CallRule, with its enabling condition written out.
RuleFairness == ([]<>(~RuleEnabled)) \/ ([]<><<CallRule>>_vars)

MethodsLiveSpec == MethodsSpec /\ RuleFairness

(***************************************************************************)
(* The segmenter machine: parse_content() on one document, one iteration   *)
(* of its loop at a time, then the last push.  segHanded records, for each *)
(* Code item, the length of its opening fence, the span of the content     *)
(* that was handed to parse() and the cursor after the closing fence.      *)
(***************************************************************************)
SegmenterInit ==
  /\ seg \in { Segmenter_new(content) : content \in SegInputs }
  /\ segHanded = <<>>
  /\ segDone = FALSE
  /\ LexerIdle
  /\ ParserIdle
  /\ RunIdle

Handed(n, st, e, after) == [open |-> n, st |-> st, end |-> e, after |-> after]

SegFenceAt(n, st) ==
  /\ fence_opens(seg, n)
  /\ seg' = fence_body(seg, n, st)
  /\ segHanded' =
       Append(segHanded,
              Handed(n, st, eat_until(seg.text, st, Backticks(n)), seg'.cursor))
  /\ UNCHANGED <<segDone, lexerVars, parserVars, runVars>>

SegFence ==
  /\ ~segDone
  /\ ~done(seg.text, seg.cursor)
  /\ SegFenceAt(fence_ticks(seg), seg.cursor + fence_ticks(seg) + Len(FenceWord))

SegChar ==
  /\ ~segDone
  /\ ~done(seg.text, seg.cursor)
  /\ ~fence_opens(seg, fence_ticks(seg))
  /\ seg' = content_step(seg)
  /\ UNCHANGED <<segHanded, segDone, lexerVars, parserVars, runVars>>

SegFinish ==
  /\ ~segDone
  /\ done(seg.text, seg.cursor)
  /\ seg' = content_finish(seg)
  /\ segDone' = TRUE
  /\ UNCHANGED <<segHanded, lexerVars, parserVars, runVars>>

SegmenterSpec == SegmenterInit /\ [][SegFence \/ SegChar \/ SegFinish]_vars

(***************************************************************************)
(* The run machine: run() on one book, one chapter at a time: the first    *)
(* loop collects the pages, then the rule table is built, then the second  *)
(* loop writes the rendered pages back into the chapters.                  *)
(***************************************************************************)
RunInit ==
  /\ book \in Books
  /\ runRoot \in Roots
  /\ run = Run_new(book)
  /\ LexerIdle
  /\ ParserIdle
  /\ SegmenterIdle

RunPage ==
  /\ run.panic = ""
  /\ run.phase = "pages"
  /\ run.stack # <<>>
  /\ run' = run_push_page(run, book, run.stack[Len(run.stack)])
  /\ UNCHANGED <<book, runRoot, lexerVars, parserVars, segVars>>

RunRules ==
  /\ run.panic = ""
  /\ run.phase = "pages"
  /\ run.stack = <<>>
  /\ run' = run_find_rules(run, book, runRoot)
  /\ UNCHANGED <<book, runRoot, lexerVars, parserVars, segVars>>

RunWriteTo(id) ==
  /\ run' = run_write(run, book, id)
  /\ book' = IF run'.panic = ""
               THEN [book EXCEPT ![id].content =
                       render_items(run.rules, run.pages[run.next].items)]
               ELSE book
  /\ UNCHANGED <<runRoot, lexerVars, parserVars, segVars>>

RunWrite ==
  /\ run.panic = ""
  /\ run.phase = "write"
  /\ run.stack # <<>>
  /\ RunWriteTo(run.stack[Len(run.stack)])

RunReturn ==
  /\ run.panic = ""
  /\ run.phase = "write"
  /\ run.stack = <<>>
  /\ run' = [run EXCEPT !.phase = "done"]
  /\ UNCHANGED <<book, runRoot, lexerVars, parserVars, segVars>>

RunSpec ==
  RunInit /\ [][RunPage \/ RunRules \/ RunWrite \/ RunReturn]_vars

(***************************************************************************)
(* Properties of the tree returned by parse().                             *)
(***************************************************************************)
RECURSIVE leaves_text(_)
leaves_text(n) ==
  IF n.type = "Inner"
    THEN Flatten([i \in 1..Len(n.children) |-> leaves_text(n.children[i])])
    ELSE n.text

RECURSIVE has_error(_)
has_error(n) ==
  CASE n.type = "Error" -> TRUE
    [] n.type = "Leaf" -> FALSE
    [] n.type = "Inner" ->
         \E i \in 1..Len(n.children) : has_error(n.children[i])

RECURSIVE flags_agree(_)
flags_agree(n) ==
  n.type = "Inner" =>
    /\ n.erroneous = (\E i \in 1..Len(n.children) : erroneous(n.children[i]))
    /\ n.erroneous = has_error(n)
    /\ \A i \in 1..Len(n.children) : flags_agree(n.children[i])

\* C2: a call of next() with input left returns a node that spans the text
\* it consumed and moves the cursor strictly forward; a call at the end of
\* the input returns a zero-width End leaf and leaves the cursor where it
\* is, and after an End every call returns End.
C2_LexerProgress ==
  [][LET c == lexState.cursor
         n == lexNode'[1]
     IN /\ lexNode' # <<>>
        /\ span(n) = <<c, lexState'.cursor>>
        /\ ~Lexer_done(lexState) => lexState'.cursor > c
        /\ Lexer_done(lexState) =>
             /\ n = leaf("End", <<>>, c, c)
             /\ lexState'.cursor = c
        /\ (lexNode # <<>> /\ kind(lexNode[1]) = "End") => kind(n) = "End"
    ]_vars

\* C2 witness: next() has returned End after lexing a text of two or more
\* characters to its end.
C2_Witness ==
  /\ Len(lexText) >= 2
  /\ lexNode # <<>>
  /\ kind(lexNode[1]) = "End"
  /\ lexState.cursor = Len(lexText)

\* C1: the texts of the Leaf and Error nodes of the tree parse() returns,
\* concatenated in depth-first left-to-right order, are the input.
C1_SourceFidelity ==
  parsed # <<>> => leaves_text(parsed[1]) = parseText

\* C3: parse() never panics, and the node it returns is a Root.
C3_ParseTotal ==
  /\ parser.panic = ""
  /\ parsed # <<>> => kind(parsed[1]) = "Root"

\* C3 witness: parse() has returned for an input with a malformed rule.
C3_Witness ==
  /\ parsed # <<>>
  /\ Len(parseText) >= 3
  /\ erroneous(parsed[1])

\* C4: in the nodes of the parser's list and in the tree parse() returns,
\* the erroneous flag of every composite is the OR of its children's
\* erroneousness, and is set exactly when an Error node is below it.
C4_ErroneousFlag ==
  /\ \A i \in 1..Len(parser.nodes) : flags_agree(parser.nodes[i])
  /\ parsed # <<>> => flags_agree(parsed[1])

\* C4 witness: a returned tree with an Error node converted in place two
\* composites below the Root.
C4_Witness ==
  /\ parsed # <<>>
  /\ \E i \in 1..Len(parsed[1].children) :
       LET r == parsed[1].children[i]
       IN /\ kind(r) = "Rule"
          /\ r.erroneous
          /\ \E j \in 1..Len(r.children) :
               /\ kind(r.children[j]) = "Definition"
               /\ \E m \in 1..Len(r.children[j].children) :
                    LET e == r.children[j].children[m]
                    IN /\ e.type = "Error"
                       /\ e.error.message[1] = "unexpected '}'"

(***************************************************************************)
(* Properties of the items returned by parse_content().                    *)
(***************************************************************************)
is_tick(t, i) == i >= 0 /\ i < Len(t) /\ t[i + 1] = "'"

\* n backticks in a row from offset i on.
ticks_at(t, i, n) == \A j \in i..(i + n - 1) : is_tick(t, j)

\* A run of exactly n backticks starts at offset i.
run_at(t, i, n) ==
  ticks_at(t, i, n) /\ ~is_tick(t, i + n) /\ ~is_tick(t, i - 1)

Least(S) == CHOOSE i \in S : \A j \in S : i <= j

\* The offset of the first run of exactly n backticks from st on, or the
\* end of the text.
exact_close(t, st, n) ==
  Least({ i \in st..Len(t) : run_at(t, i, n) } \cup { Len(t) })

\* The offset from st on where n backticks in a row first occur, or the
\* end of the text.
first_ticks(t, st, n) ==
  Least({ i \in st..Len(t) : ticks_at(t, i, n) } \cup { Len(t) })

CodeItems == SelectSeq(seg.items, LAMBDA it : it.tag = "Code")

\* C9: the content of every Code item ends at the first run of exactly as
\* many backticks as its opening fence has (or at the end of the document),
\* and scanning goes on right after that run, so that no backtick of a run
\* of another length is left to the Text item that follows.
C9_ExactLengthClose ==
  \A k \in 1..Len(segHanded) :
    /\ segHanded[k].end = exact_close(seg.text, segHanded[k].st, segHanded[k].open)
    /\ segHanded[k].after =
         IF segHanded[k].end < Len(seg.text)
           THEN segHanded[k].end + segHanded[k].open
           ELSE segHanded[k].end

\* The content handed to parse() holds a run of exactly three backticks.
holds_three(h) ==
  \E i \in h.st..(h.end - 3) : run_at(seg.text, i, 3)

RECURSIVE identifiers(_)
identifiers(n) ==
  IF kind(n) = "Identifier"
    THEN <<text(n)>>
    ELSE Flatten([i \in 1..Len(children(n)) |-> identifiers(children(n)[i])])

page_identifiers(pg) ==
  Flatten([i \in 1..Len(pg.items) |->
             IF pg.items[i].tag = "Code"
               THEN identifiers(pg.items[i].code)
               ELSE <<>>])

Range(sq) == { sq[i] : i \in 1..Len(sq) }

\* The names that the pages mention or the table holds.
Names ==
  DOMAIN run.rules
    \cup UNION { Range(page_identifiers(run.pages[k])) : k \in 1..Len(run.pages) }

\* c is a rule without errors whose first Identifier child has text n.
defines(c, n) ==
  /\ kind(c) = "Rule"
  /\ ~erroneous(c)
  /\ \E j \in 1..Len(children(c)) :
       /\ kind(children(c)[j]) = "Identifier"
       /\ text(children(c)[j]) = n
       /\ \A i \in 1..(j - 1) : kind(children(c)[i]) # "Identifier"

Location(root, pg, n) == root \o pg.href \o <<"#", "syntax-rule-">> \o n

\* One location for each top-level rule of the page that defines n.
PageLocations(root, pg, n) ==
  Flatten([i \in 1..Len(pg.items) |->
    IF pg.items[i].tag = "Code"
      THEN Flatten([c \in 1..Len(children(pg.items[i].code)) |->
             IF defines(children(pg.items[i].code)[c], n)
               THEN <<Location(root, pg, n)>>
               ELSE <<>>])
      ELSE <<>>])

Locations(root, pages, n) ==
  Flatten([k \in 1..Len(pages) |-> PageLocations(root, pages[k], n)])

Entry(n) == IF n \in DOMAIN run.rules THEN run.rules[n] ELSE <<>>

\* How often the pieces sub occur in a row in sq.
Occurrences(sub, sq) ==
  Cardinality({ i \in 0..(Len(sq) - Len(sub)) :
                  SubSeq(sq, i + 1, i + Len(sub)) = sub })

\* How often the text n is among the identifiers ids.
Mentions(ids, n) == Cardinality({ i \in 1..Len(ids) : ids[i] = n })

UndefinedAnnotation(n) ==
  <<"<span class=\"syntax-error\" message=\"", "rule '">> \o n
    \o <<"' does not exist", "\" hints=\"[", "]\">">> \o n \o <<"</span>">>

AmbiguousAnnotation(n) ==
  <<"<span class=\"syntax-error\" message=\"",
    "found multiple definitions for rule '">> \o n
    \o <<"'", "\" hints=\"[", "]\">">> \o n \o <<"</span>">>

LinkTo(loc, n) ==
  <<"<a class=\"syntax-link\" href=\"">> \o loc
    \o <<"\">", "<span class=\"syntax-identifier\">">> \o n
    \o <<"</span>", "</a>">>

\* The end of any link around the identifier n.
LinkAround(n) ==
  <<"\">", "<span class=\"syntax-identifier\">">> \o n \o <<"</span>", "</a>">>

Resolved(n) ==
  IF Len(Entry(n)) = 0 THEN UndefinedAnnotation(n)
  ELSE IF Len(Entry(n)) = 1 THEN LinkTo(Entry(n)[1], n)
  ELSE AmbiguousAnnotation(n)

\* The content of the k-th chapter written, after the write.
Written(k) == book[run.written[k]].content

\* C5: once find_rules has run, the entry of every name is the list, in
\* page order and then source order, of root + href + "#" + "syntax-rule-"
\* + name for each top-level rule without errors whose first Identifier is
\* the name; erroneous rules add nothing, repeated definitions all stay,
\* and the table holds no other name.
C5_RuleTable ==
  run.phase \in {"write", "done"} =>
    /\ \A n \in Names : Entry(n) = Locations(runRoot, run.pages, n)
    /\ \A n \in DOMAIN run.rules : run.rules[n] # <<>>

\* C5 witness: the table is built and a name has three locations, two of
\* them the same (one page defines it twice) and one from another page,
\* while a third page holds an erroneous rule of that name.
C5_Witness ==
  /\ run.phase = "write"
  /\ \E n \in DOMAIN run.rules :
       /\ Len(run.rules[n]) = 3
       /\ \E i, j \in 1..3 : i # j /\ run.rules[n][i] = run.rules[n][j]
       /\ \E i, j \in 1..3 : run.rules[n][i] # run.rules[n][j]
       /\ \E k \in 1..Len(run.pages) :
            /\ PageLocations(runRoot, run.pages[k], n) = <<>>
            /\ \E i \in 1..Len(run.pages[k].items) :
                 /\ run.pages[k].items[i].tag = "Code"
                 /\ \E c \in Range(children(run.pages[k].items[i].code)) :
                      /\ kind(c) = "Rule"
                      /\ erroneous(c)
                      /\ first_identifier(children(c)) = <<n>>

\* C6: in every chapter written, each Identifier is rendered by the number
\* of locations the table holds for its text: none, the annotation that
\* the rule does not exist; one, a link to that location around a
\* syntax-identifier span; two or more, the annotation of multiple
\* definitions and no link.
C6_IdentifierResolution ==
  \A k \in 1..Len(run.written) :
    \A n \in Range(page_identifiers(run.pages[k])) :
      /\ Occurrences(Resolved(n), Written(k))
           = Mentions(page_identifiers(run.pages[k]), n)
      /\ Len(Entry(n)) # 1 => Occurrences(LinkAround(n), Written(k)) = 0

\* C6 witness: run() has returned and one chapter written holds an
\* identifier without a location, one with one and one with two.
C6_Witness ==
  /\ run.phase = "done"
  /\ \E k \in 1..Len(run.written) :
       /\ \E n \in Range(page_identifiers(run.pages[k])) :
            Len(Entry(n)) = 0 /\ Occurrences(UndefinedAnnotation(n), Written(k)) = 1
       /\ \E n \in Range(page_identifiers(run.pages[k])) :
            Len(Entry(n)) = 1 /\ Occurrences(LinkTo(Entry(n)[1], n), Written(k)) = 1
       /\ \E n \in Range(page_identifiers(run.pages[k])) :
            Len(Entry(n)) = 2 /\ Occurrences(AmbiguousAnnotation(n), Written(k)) = 1

\* The pages that hold a rule without errors named n.
Definers(n) ==
  { k \in 1..Len(run.pages) : PageLocations(runRoot, run.pages[k], n) # <<>> }

\* C7: when two different documents each hold a well-formed rule of one
\* name, the entry of the name holds a location of each of them (two
\* locations in all when each defines it once and no other document does),
\* and in every chapter written each Identifier of that name, the defining
\* ones too, is the annotation of multiple definitions and never a link.
C7_CrossDocument ==
  run.phase \in {"write", "done"} =>
    \A n \in Names :
      Cardinality(Definers(n)) >= 2 =>
        /\ Len(Entry(n)) >= 2
        /\ \A d \in Definers(n) :
             Location(runRoot, run.pages[d], n) \in Range(Entry(n))
        /\ ( /\ Cardinality(Definers(n)) = 2
             /\ \A d \in Definers(n) :
                  Len(PageLocations(runRoot, run.pages[d], n)) = 1 )
             => Len(Entry(n)) = 2
        /\ \A k \in 1..Len(run.written) :
             /\ Occurrences(AmbiguousAnnotation(n), Written(k))
                  = Mentions(page_identifiers(run.pages[k]), n)
             /\ Occurrences(LinkAround(n), Written(k)) = 0

\* C7 witness: run() has returned on three documents: two define one name
\* once each, the third only refers to it, and all three show the
\* annotation of multiple definitions.
C7_Witness ==
  /\ run.phase = "done"
  /\ Len(run.written) = 3
  /\ \E n \in Names :
       /\ Cardinality(Definers(n)) = 2
       /\ Len(Entry(n)) = 2
       /\ \E k \in 1..3 :
            /\ k \notin Definers(n)
            /\ Mentions(page_identifiers(run.pages[k]), n) = 1
       /\ \A k \in 1..3 : Occurrences(AmbiguousAnnotation(n), Written(k)) = 1

\* The rule table is that of all the chapters of the book.
TableComplete ==
  /\ Range(run.visited) = 1..Len(book)
  /\ Len(run.pages) = Len(book)
  /\ \A n \in Names : Entry(n) = Locations(runRoot, run.pages, n)

\* A reference in a chapter written to a name that one rule of another
\* document defines, and no other rule, is a link to that document.
LinksAcross ==
  \A k \in 1..Len(run.written) :
    \A n \in Range(page_identifiers(run.pages[k])) :
      \A d \in Definers(n) \ {k} :
        Len(Locations(runRoot, run.pages, n)) = 1 =>
          Occurrences(LinkTo(Location(runRoot, run.pages[d], n), n), Written(k))
            = Mentions(page_identifiers(run.pages[k]), n)

\* C8: nothing is rendered while the pages are collected; from the first
\* write on the rule table is that of all the documents, and it never
\* changes again; so a reference to a rule that only another document
\* defines is a link to it, whichever of the two comes first.
C8_TwoPhase ==
  /\ [](run.phase = "pages" => run.written = <<>>)
  /\ [](run.phase \in {"write", "done"} => TableComplete /\ LinksAcross)
  /\ [][run.phase \in {"write", "done"} => run'.rules = run.rules]_vars

\* C8 witness: run() has returned, and a chapter written before the one
\* that alone defines a name links to it.
C8_Witness ==
  /\ run.phase = "done"
  /\ \E k, d \in 1..Len(run.written) :
       /\ k < d
       /\ \E n \in Range(page_identifiers(run.pages[k])) :
            /\ Definers(n) = {d}
            /\ Len(Entry(n)) = 1
            /\ Occurrences(LinkTo(Location(runRoot, run.pages[d], n), n),
                           Written(k)) = 1

(***************************************************************************)
(* Properties of the segmentation and of the content written back.         *)
(***************************************************************************)
\* The offset where the opening fence of the k-th block starts.
BlockStart(k) == segHanded[k].st - Len(FenceWord) - segHanded[k].open

\* The span of the input between the blocks k - 1 and k.
BetweenStart(k) == IF k = 1 THEN 0 ELSE segHanded[k - 1].after

BetweenEnd(k) ==
  IF k = Len(segHanded) + 1 THEN Len(seg.text) ELSE BlockStart(k)

\* Three or more backticks start at offset i and "syntax\n" follows them.
tagged_at(t, i) ==
  \E m \in 3..Len(t) : ticks_at(t, i, m) /\ at(t, i + m, FenceWord)

\* C11: parse_content returns 2n+1 items for n blocks, Text and Code in
\* turn from a Text to a Text; each Text item is the input between two
\* blocks, unchanged, and holds no tagged fence; each Code item comes from
\* three or more backticks followed by "syntax\n"; without any tagged
\* fence the one Text item is the whole input.
C11_SegmentationShape ==
  segDone =>
    /\ Len(seg.items) = 2 * Len(segHanded) + 1
    /\ \A k \in 1..(Len(segHanded) + 1) :
         /\ seg.items[2 * k - 1]
              = Item_Text(from(seg.text, BetweenStart(k), BetweenEnd(k)))
         /\ \A i \in BetweenStart(k)..(BetweenEnd(k) - 1) :
              ~tagged_at(seg.text, i)
    /\ \A k \in 1..Len(segHanded) :
         /\ seg.items[2 * k].tag = "Code"
         /\ segHanded[k].open >= 3
         /\ ticks_at(seg.text, BlockStart(k), segHanded[k].open)
         /\ at(seg.text, BlockStart(k) + segHanded[k].open, FenceWord)
    /\ (\A i \in 0..Len(seg.text) : ~tagged_at(seg.text, i))
         => seg.items = <<Item_Text(seg.text)>>

\* C11 witness: parse_content has returned three items; the first Text
\* holds three backticks that open no block, the last Text is empty.
C11_Witness ==
  /\ segDone
  /\ Len(seg.items) = 3
  /\ \E i \in 0..Len(seg.items[1].text) : ticks_at(seg.items[1].text, i, 3)
  /\ seg.items[2].tag = "Code"
  /\ seg.items[3] = Item_Text(<<>>)

\* The items one after the other, a Text as it is and a Code as markup.
Substituted(rules, items) ==
  Flatten([i \in 1..Len(items) |->
             IF items[i].tag = "Text"
               THEN items[i].text
               ELSE parse_code(rules, items[i].code)])

\* The markup is one container: it opens first, closes last, and neither
\* happens a second time.
OneContainer(out) ==
  /\ out[1] = "<pre><code class=\"syntax\">"
  /\ out[Len(out)] = "</code></pre>"
  /\ Occurrences(<<"<pre><code class=\"syntax\">">>, out) = 1
  /\ Occurrences(<<"</code></pre>">>, out) = 1

CodesOf(items) == SelectSeq(items, LAMBDA it : it.tag = "Code")

\* Every chapter written is the chapter its page was read from, and its
\* content is its items in order, the Text items as they were and each
\* Code item as one container.
WrittenInPlace ==
  \A k \in 1..Len(run.written) :
    /\ run.written[k] = run.visited[k]
    /\ Written(k) = Substituted(run.rules, run.pages[k].items)
    /\ \A i \in 1..Len(run.pages[k].items) :
         run.pages[k].items[i].tag = "Code" =>
           OneContainer(parse_code(run.rules, run.pages[k].items[i].code))
    /\ Occurrences(<<"<pre><code class=\"syntax\">">>, Written(k))
         = Len(CodesOf(run.pages[k].items))

\* A chapter changes only into the items of its own old content.
WritesOwnContent ==
  \A id \in 1..Len(book) :
    book'[id] # book[id] =>
      book'[id] = [book[id] EXCEPT
                     !.content =
                       Substituted(run.rules, parse_content(book[id].content))]

\* C12: the new content of a document is the concatenation of its items in
\* order, each Text item copied as it is and each Code item replaced by its
\* markup in one <pre><code class="syntax"> container, so that the text
\* outside the fences is in the output once and in its order.
C12_TextUnchanged == [](WrittenInPlace) /\ [][WritesOwnContent]_vars

\* C12 witness: run() has returned and a chapter written has a text
\* before its one container and a text after it.
C12_Witness ==
  /\ run.phase = "done"
  /\ \E k \in 1..Len(run.written) :
       /\ Len(run.pages[k].items) = 3
       /\ run.pages[k].items[1].text # <<>>
       /\ run.pages[k].items[3].text # <<>>
       /\ Written(k)[1] = run.pages[k].items[1].text[1]
       /\ Written(k)[2] = "<pre><code class=\"syntax\">"
       /\ Written(k)[Len(Written(k)) - 1] = "</code></pre>"
       /\ Written(k)[Len(Written(k))] = run.pages[k].items[3].text[1]

(***************************************************************************)
(* Properties of the trees of particular rules.                            *)
(***************************************************************************)
\* The children that are neither whitespace nor comments.
solid(n) == SelectSeq(children(n), LAMBDA c : kind(c) \notin is_trivia)

kinds_of(ns) == [i \in 1..Len(ns) |-> kind(ns[i])]

\* The tree is a Root around one Rule of the shape Identifier, Colon,
\* Definition, SemiColon, and none of the three has an error.
RuleShaped(root) ==
  /\ kind(root) = "Root"
  /\ ~erroneous(root)
  /\ kinds_of(solid(root)) = <<"Rule">>
  /\ ~erroneous(solid(root)[1])
  /\ kinds_of(solid(solid(root)[1]))
       = <<"Identifier", "Colon", "Definition", "SemiColon">>
  /\ ~erroneous(solid(solid(root)[1])[3])

\* C13: "foo: bar;" parses to Root{ Rule{ Identifier("foo"), Colon,
\* Definition{ Identifier("bar") }, SemiColon } }, whitespace aside, and
\* every rule made of a name, a colon, valid items and a semicolon parses
\* to a Rule of that shape; none of these nodes is erroneous.
C13_WellFormedRule ==
  parsed # <<>> =>
    /\ parseText \in WellFormedRules \cup {FooBar} => RuleShaped(parsed[1])
    /\ parseText = FooBar =>
         /\ text(solid(solid(parsed[1])[1])[1]) = <<"f", "o", "o">>
         /\ kinds_of(solid(solid(solid(parsed[1])[1])[3])) = <<"Identifier">>
         /\ text(solid(solid(solid(parsed[1])[1])[3])[1]) = <<"b", "a", "r">>

\* C13 witness: parse("foo: bar;") has returned a tree of the shape.
C13_Witness ==
  /\ parsed # <<>>
  /\ parseText = FooBar
  /\ RuleShaped(parsed[1])
  /\ text(solid(solid(solid(parsed[1])[1])[3])[1]) = <<"b", "a", "r">>

\* The last child of the only Rule of the tree.
LastOfRule(root) ==
  children(solid(root)[1])[Len(children(solid(root)[1]))]

\* The tree is a Root around one Rule that ends in the Error of a missing
\* semicolon, with its hint; the Rule and the Root are erroneous.
EndsUnterminated(root) ==
  /\ kind(root) = "Root"
  /\ erroneous(root)
  /\ kinds_of(solid(root)) = <<"Rule">>
  /\ erroneous(solid(root)[1])
  /\ LastOfRule(root).type = "Error"
  /\ LastOfRule(root).error.message = <<"expected ';', found end">>
  /\ LastOfRule(root).error.hints = <<<<"consider ending the rule with ';'">>>>

\* C14: a rule that reaches the end of the input without its semicolon
\* ("foo: bar") parses to one Root around a Rule whose last child is an
\* Error saying that ';' was expected, with the hint to end the rule with
\* ';'; the Rule and the Root are erroneous.
C14_MissingTerminator ==
  parsed # <<>> /\ parseText \in OpenRules \cup {FooBarOpen}
    => EndsUnterminated(parsed[1])

\* C14 witness: parse("foo: bar") has returned such a tree.
C14_Witness ==
  parsed # <<>> /\ parseText = FooBarOpen /\ EndsUnterminated(parsed[1])

\* The nodes of a tree that are no composites, in source order.
RECURSIVE tokens(_)
tokens(n) ==
  IF n.type = "Inner"
    THEN Flatten([i \in 1..Len(n.children) |-> tokens(n.children[i])])
    ELSE <<n>>

\* The number of backslashes in a row just before offset i, after offset s.
RECURSIVE backslashes(_, _, _)
backslashes(t, s, i) ==
  IF i - 1 > s /\ t[i] = "\\" THEN 1 + backslashes(t, s, i - 1) ELSE 0

\* A \u without a brace stands between the offsets s and i: it takes the
\* four characters after it whatever they are.
bare_u(t, s, i) ==
  \E j \in (s + 1)..(i - 2) :
    t[j + 1] = "\\" /\ t[j + 2] = "u" /\ t[j + 3] # "{"

\* No quote after the one at offset s closes the string: each is escaped
\* by a backslash and follows no brace-less \u.
NeverCloses(t, s) ==
  \A i \in (s + 1)..(Len(t) - 1) :
    t[i + 1] = "\"" =>
      backslashes(t, s, i) % 2 = 1 /\ ~bare_u(t, s, i)

\* n is the Error of the string left open at offset s.
UnclosedString(n, t, s) ==
  /\ n.type = "Error"
  /\ n.span = <<s, Len(t)>>
  /\ n.text = from(t, s, Len(t))
  /\ n.error.message = <<"unclosed string literal">>
  /\ n.error.hints # <<>>
  /\ n.error.hints[1]
       = <<"consider closing the string literal with '", "\"", "'">>

\* A token that starts with a quote (the operation of an action is not
\* lexed on its own).
StartsString(n, t) ==
  /\ kind(n) # "Operation"
  /\ n.span[1] < Len(t)
  /\ n.span[2] > n.span[1]
  /\ t[n.span[1] + 1] = "\""

\* C15: a string that the input ends in is one Error from its opening quote
\* to the end of the input, with the message "unclosed string literal" in
\* the place of any escape error of the same string, and the tree of
\* "foo: \"abc;" holds that Error.
C15_UnterminatedString ==
  parsed # <<>> =>
    /\ \A n \in Range(tokens(parsed[1])) :
         StartsString(n, parseText) /\ NeverCloses(parseText, n.span[1])
           => UnclosedString(n, parseText, n.span[1])
    /\ parseText \in StringRules /\ NeverCloses(parseText, 3) =>
         \E n \in Range(tokens(parsed[1])) : UnclosedString(n, parseText, 3)
    /\ parseText = FooAbcOpen =>
         \E n \in Range(tokens(parsed[1])) : UnclosedString(n, parseText, 5)

\* C15 witness: the tree of a rule whose string holds an invalid escape and
\* is never closed holds the Error of the unclosed string.
C15_Witness ==
  /\ parsed # <<>>
  /\ parseText = <<"a", ":", " ", "\"", "\\", "%">>
  /\ \E n \in Range(tokens(parsed[1])) : UnclosedString(n, parseText, 3)

\* C16: the rule "if: bar;" parses to a Rule without errors whose first
\* child is the Identifier leaf "if" with its own text and span, followed
\* by Colon, Definition and SemiColon.
C16_IfRuleName ==
  parsed # <<>> /\ parseText = IfBar =>
    /\ RuleShaped(parsed[1])
    /\ kind(solid(parsed[1])[1].children[1]) = "Identifier"
    /\ text(solid(parsed[1])[1].children[1]) = <<"i", "f">>
    /\ span(solid(parsed[1])[1].children[1]) = <<0, 2>>

\* Every node of a tree, parents before children.
RECURSIVE subtrees(_)
subtrees(n) ==
  IF n.type = "Inner"
    THEN <<n>> \o Flatten([i \in 1..Len(n.children) |-> subtrees(n.children[i])])
    ELSE <<n>>

Atoms ==
  { "Identifier", "Meta", "Dot", "String", "Range", "Group", "Looking",
    "Converse" }

Indicators == { "Question", "Star", "Plus", "BraceIndicator" }

\* A Repeating node of an atom, then an indicator, then at most one "?".
AtomFirst(n) ==
  /\ Len(children(n)) >= 2
  /\ kind(children(n)[1]) \in Atoms
  /\ Len(solid(n)) \in {2, 3}
  /\ kind(solid(n)[2]) \in Indicators
  /\ Len(solid(n)) = 3 => kind(solid(n)[3]) = "Question"

\* C17: in the tree of "a:\"s\" *;", where a space stands between the
\* string and its indicator, every Repeating node starts with its atom and
\* goes on with the indicator.
C17_RepeatingHoldsAtom ==
  parsed # <<>> /\ parseText = StringStar =>
    /\ \E n \in Range(subtrees(parsed[1])) : kind(n) = "Repeating"
    /\ \A n \in Range(subtrees(parsed[1])) :
         kind(n) = "Repeating" => AtomFirst(n)

\* The top-level nodes of the grammar blocks of a page, in order.
TopNodes(pg) ==
  Flatten([i \in 1..Len(pg.items) |->
             IF pg.items[i].tag = "Code"
               THEN children(pg.items[i].code)
               ELSE <<>>])

BrokenRules(pg) ==
  SelectSeq(TopNodes(pg), LAMBDA c : kind(c) = "Rule" /\ erroneous(c))

SoundRules(pg) ==
  SelectSeq(TopNodes(pg), LAMBDA c : kind(c) = "Rule" /\ ~erroneous(c))

\* The syntax-error span of an Error node: message, hints, and the text or
\* "[error]" when the text is blank.
ErrorAnnotation(n) ==
  <<"<span class=\"syntax-error\" message=\"">>
    \o escape_default(n.error.message)
    \o <<"\" hints=\"[">> \o join_hints(n.error.hints) \o <<"]\">">>
    \o (IF \A i \in 1..Len(n.text) : n.text[i] \in is_whitespace
          THEN <<"[error]">>
          ELSE n.text)
    \o <<"</span>">>

ClassOf(k) ==
  CASE k = "Comment" -> "comment"
    [] k = "String" -> "string"
    [] k = "Integer" -> "integer"
    [] k = "Meta" -> "meta"
    [] k = "Operation" -> "action"
    [] k = "If" -> "keyword"
    [] OTHER -> "operator"

\* What one token of a rule looks like in the output.
Shown(n) ==
  IF n.type = "Error" THEN ErrorAnnotation(n)
  ELSE IF n.kind = "Whitespace" THEN n.text
  ELSE IF n.kind = "Identifier" THEN Resolved(n.text)
  ELSE IF n.kind = "End" THEN <<>>
  ELSE <<"<span class=\"syntax-" \o ClassOf(n.kind) \o "\">">>
         \o encode_safe(n.text) \o <<"</span>">>

\* The tokens of a rule as the output shows them, in source order.
InOrder(c) == Flatten([i \in 1..Len(tokens(c)) |-> Shown(tokens(c)[i])])

RuleSpanOpen == <<"<span class=\"syntax-rule\" rule=\"">>

AnchorOpen == <<"\"><a name=\"">>

\* C18: in every chapter written, a top-level Rule with an Error in it
\* adds no location to the rule table and gets neither the syntax-rule
\* span nor an anchor (there are as many of each as rules without errors),
\* while its tokens are all there in source order, each Error as a
\* syntax-error span with its message and hints; run() only stops early on
\* a chapter without a path, and otherwise writes every chapter.
C18_ErroneousRule ==
  /\ \A k \in 1..Len(run.written) :
       /\ \A c \in Range(BrokenRules(run.pages[k])) :
            /\ Occurrences(InOrder(c), Written(k)) >= 1
            /\ \A n \in Range(identifiers(c)) :
                 first_identifier(children(c)) = <<n>>
                   => Len(Entry(n)) = Len(Locations(runRoot, run.pages, n))
       /\ Occurrences(RuleSpanOpen, Written(k))
            = Len(SoundRules(run.pages[k]))
       /\ Occurrences(AnchorOpen, Written(k))
            = Len(SoundRules(run.pages[k]))
  /\ run.panic # "" => \E i \in 1..Len(book) : book[i].path = <<>>
  /\ run.phase = "done" /\ run.panic = "" => Len(run.written) = Len(book)

\* C18 witness: run() has returned; a chapter that is not the last one
\* written holds a rule with an Error that has text, a rule without errors
\* after it, and a rule with an Error without text.
C18_Witness ==
  /\ run.phase = "done"
  /\ run.panic = ""
  /\ \E k \in 1..(Len(run.written) - 1) :
       /\ Len(BrokenRules(run.pages[k])) = 2
       /\ Len(SoundRules(run.pages[k])) = 1
       /\ Occurrences(RuleSpanOpen, Written(k)) = 1
       /\ Occurrences(<<"[error]">>, Written(k)) = 1
       /\ \A c \in Range(BrokenRules(run.pages[k])) :
            Occurrences(InOrder(c), Written(k)) >= 1
       /\ Len(SoundRules(run.pages[k + 1])) >= 1

\* The span of a rule named n up to the end of an anchor of the name
\* "syntax-rule-" + n.
AnchoredSpan(n) ==
  RuleSpanOpen \o <<"syntax-rule-">> \o n
    \o AnchorOpen \o <<"syntax-rule-">> \o n \o <<"\"></a>">>

\* The location loc ends in "#" + "syntax-rule-" + n.
TargetsAnchor(loc, n) ==
  /\ Len(loc) >= Len(n) + 2
  /\ SubSeq(loc, Len(loc) - Len(n) - 1, Len(loc))
       = <<"#", "syntax-rule-">> \o n

\* C19: in every chapter written, each rule without errors named n is a
\* span with rule = "syntax-rule-" + n and an anchor of that very name,
\* which is what follows "#" in every location of n in the rule table.
C19_AnchorIsTarget ==
  \A k \in 1..Len(run.written) :
    \A c \in Range(SoundRules(run.pages[k])) :
      \A n \in Range(identifiers(c)) :
        first_identifier(children(c)) = <<n>> =>
          /\ \A i \in 1..Len(Entry(n)) : TargetsAnchor(Entry(n)[i], n)
          /\ Occurrences(AnchoredSpan(n), Written(k)) >= 1

\* The offsets after the opener at s where "*/" starts.
Closers(t, s) ==
  { i \in (s + 2)..(Len(t) - 2) : t[i + 1] = "*" /\ t[i + 2] = "/" }

\* C20: a token that starts with "/*" is a Comment that ends with the first
\* "*/" after the opener, whatever stands between them, and the Error
\* "unclosed block comment" up to the end of the input only when there is
\* no "*/" after the opener.
C20_BlockCommentClose ==
  /\ lexNode # <<>>
  /\ lexNode[1].span[1] + 2 <= Len(lexText)
  /\ lexText[lexNode[1].span[1] + 1] = "/"
  /\ lexText[lexNode[1].span[1] + 2] = "*"
  => IF Closers(lexText, lexNode[1].span[1]) # {}
       THEN /\ kind(lexNode[1]) = "Comment"
            /\ lexNode[1].span[2]
                 = Least(Closers(lexText, lexNode[1].span[1])) + 2
       ELSE /\ kind(lexNode[1]) = "Error"
            /\ lexNode[1].error.message = <<"unclosed block comment">>
            /\ lexNode[1].span[2] = Len(lexText)

\* The token at offset s is the whole identifier "if".
IfAt(t, s) ==
  /\ s + 2 <= Len(t)
  /\ t[s + 1] = "i"
  /\ t[s + 2] = "f"
  /\ s + 2 < Len(t) => t[s + 3] \notin is_id_continue

\* The token at offset s starts with "->".
ArrowAt(t, s) == s + 2 <= Len(t) /\ t[s + 1] = "-" /\ t[s + 2] = ">"

\* Where the operation of the action at s ends: at the first ";" (for "if"
\* also at the first "->") after the trigger, or at the end of the text.
Terminator(t, s, arrow) ==
  Least({ i \in (s + 2)..(Len(t) - 1) :
            \/ t[i + 1] = ";"
            \/ ~arrow /\ i + 2 <= Len(t) /\ t[i + 1] = "-" /\ t[i + 2] = ">" }
          \cup { Len(t) })

\* n is the Action of the trigger k at s with the operation up to e.
ActionOf(n, t, s, k, e) ==
  /\ n.type = "Inner"
  /\ n.kind = "Action"
  /\ n.children = << leaf(k, SubSeq(t, s + 1, s + 2), s, s + 2),
                     leaf("Operation", SubSeq(t, s + 3, e), s + 2, e) >>

\* C21: the token returned for "if" as a whole identifier or for "->" is an
\* Action of two leaves, the trigger and an Operation with all the text up
\* to the terminator: the first ";", "->" or the end for "if", the first
\* ";" or the end for "->"; the cursor is left at the terminator, and no
\* other token is an Action.
C21_ActionConstruction ==
  lexNode # <<>> =>
    /\ IfAt(lexText, lexNode[1].span[1]) =>
         /\ ActionOf(lexNode[1], lexText, lexNode[1].span[1], "If",
                     Terminator(lexText, lexNode[1].span[1], FALSE))
         /\ lexState.cursor = Terminator(lexText, lexNode[1].span[1], FALSE)
    /\ ArrowAt(lexText, lexNode[1].span[1]) =>
         /\ ActionOf(lexNode[1], lexText, lexNode[1].span[1], "Arrow",
                     Terminator(lexText, lexNode[1].span[1], TRUE))
         /\ lexState.cursor = Terminator(lexText, lexNode[1].span[1], TRUE)
    /\ kind(lexNode[1]) = "Action" =>
         \/ IfAt(lexText, lexNode[1].span[1])
         \/ ArrowAt(lexText, lexNode[1].span[1])

\* C21 witness: an Arrow action whose operation holds a "->" and ends
\* before a ";".
C21_Witness ==
  /\ lexNode # <<>>
  /\ kind(lexNode[1]) = "Action"
  /\ kind(lexNode[1].children[1]) = "Arrow"
  /\ lexNode[1].children[2].text = <<"-", ">">>
  /\ lexState.cursor < Len(lexText)
  /\ lexText[lexState.cursor + 1] = ";"

\* The list new is the list old with trivia nodes added at its end.
OnlyTrivia(old, new) ==
  /\ Len(new) >= Len(old)
  /\ SubSeq(new, 1, Len(old)) = old
  /\ \A i \in (Len(old) + 1)..Len(new) : kind(new[i]) \in is_trivia

Front(ns) == SubSeq(ns, 1, Len(ns) - 1)

\* The last call left the token it read for the next call.
PutBack(c) == c.op = "uneat" \/ (c.op = "eat_if" /\ ~c.ok)

\* C22: eat() adds the trivia it skips and then the token it returns;
\* uneat() after it pops that token and sets the cursor to its start, as a
\* failed eat_if does, so that the list is the one before the eat() plus
\* the trivia; and whatever call reads next reads an equal node, for a
\* leaf, an Error and an Action, after any number of failed eat_if calls.
C22_Lookahead ==
  /\ called.op = "eat" =>
       /\ OnlyTrivia(called.before.nodes, Front(parser.nodes))
       /\ Last(parser.nodes) = called.read[1]
       /\ kind(called.read[1]) \notin is_trivia
  /\ called.op = "uneat" =>
       /\ called.read = called.prior.read
       /\ parser.lexer.cursor = span(called.read[1])[1]
       /\ parser.nodes = Front(called.before.nodes)
  /\ called.op = "eat_if" /\ ~called.ok =>
       /\ parser.lexer.cursor = span(called.read[1])[1]
       /\ OnlyTrivia(called.before.nodes, parser.nodes)
  /\ called.op \in {"eat", "eat_if", "expect", "item"} /\ PutBack(called.prior)
       => called.read = called.prior.read

\* C22 witness: two eat_if calls in a row have failed on an Action that
\* stands after a whitespace, which is in the list.
C22_Witness ==
  /\ called.op = "eat_if"
  /\ ~called.ok
  /\ called.prior.op = "eat_if"
  /\ ~called.prior.ok
  /\ kind(called.read[1]) = "Action"
  /\ kinds_of(parser.nodes) = <<"Whitespace">>

\* The Error that a failed expect of the pattern pat makes of the node n.
Mismatch(n, pat) ==
  [type |-> "Error",
   text |-> text(n),
   span |-> span(n),
   error |-> [message |-> <<"expected " \o pat.name[1] \o ", found "
                              \o name(kind(n))>>,
              hints |-> <<>>]]

\* What every expect leaves alone: the cursor is after the token read and
\* the nodes before the token are the ones before the call plus trivia.
ExpectFrame ==
  /\ parser.lexer.cursor = span(called.read[1])[2]
  /\ OnlyTrivia(called.before.nodes, Front(parser.nodes))

\* C23 as stated: an expect that reads a token that does not match leaves
\* the token consumed, replaces the last node by an Error of the same span
\* with the message "expected <pattern>, found <kind>", the kind being the
\* one the node had, and changes no earlier node; one that matches changes
\* no node.
C23_ExpectInPlaceAnyToken ==
  called.op = "expect" =>
    /\ ExpectFrame
    /\ called.ok => Last(parser.nodes) = called.read[1]
    /\ ~called.ok =>
         Last(parser.nodes) = Mismatch(called.read[1], called.arg[1])

\* C23 amended: the same, for a token that is not an Error already; a token
\* that the lexer returned as an Error stays as it is, with its own
\* message.
C23_ExpectInPlace ==
  called.op = "expect" =>
    /\ ExpectFrame
    /\ called.ok => Last(parser.nodes) = called.read[1]
    /\ ~called.ok /\ called.read[1].type # "Error" =>
         Last(parser.nodes) = Mismatch(called.read[1], called.arg[1])
    /\ ~called.ok /\ called.read[1].type = "Error" =>
         Last(parser.nodes) = called.read[1]

\* C23 witness: an expect has failed on a token after a comment and turned
\* it into the Error of the mismatch.
C23_Witness ==
  /\ called.op = "expect"
  /\ ~called.ok
  /\ called.read[1].type = "Leaf"
  /\ Len(parser.nodes) >= 4
  /\ kind(parser.nodes[Len(parser.nodes) - 1]) = "Comment"
  /\ Last(parser.nodes) = Mismatch(called.read[1], called.arg[1])

Terminators == { "RightParen", "Action", "End", "SemiColon" }

\* The composite n holds a SemiColon, an Action, or a RightParen that does
\* not close a Group or a Looking.
HoldsTerminator(n) ==
  /\ n.type = "Inner"
  /\ \E i \in 1..Len(n.children) :
       \/ kind(n.children[i]) \in {"SemiColon", "Action"}
       \/ /\ kind(n.children[i]) = "RightParen"
          /\ ~(n.kind \in {"Group", "Looking"} /\ i = Len(n.children))

\* The nodes in and under the Definition nodes of the parser's list.
UnderDefinitions ==
  UNION { Range(subtrees(d)) :
            d \in { n \in UNION { Range(subtrees(parser.nodes[i])) :
                                    i \in 1..Len(parser.nodes) } :
                      kind(n) = "Definition" } }

\* C24: an item() that reads ")", an Action, End or ";" first returns
\* false, and only then; the token is not in the list and the cursor is at
\* its start, so that the call that reads next reads that token; and no
\* Definition holds a SemiColon, an Action or a RightParen that closes
\* nothing.
C24_TerminatorsPushedBack ==
  /\ called.op = "item" =>
       /\ called.ok <=> kind(called.read[1]) \notin Terminators
       /\ ~called.ok =>
            /\ parser.lexer.cursor = span(called.read[1])[1]
            /\ OnlyTrivia(called.before.nodes, parser.nodes)
  /\ called.op \in {"eat", "eat_if", "expect", "item"}
       /\ called.prior.op = "item" /\ ~called.prior.ok
       => called.read = called.prior.read
  /\ \A n \in UnderDefinitions : ~HoldsTerminator(n)

\* C24 witness: an expect of ";" has read the ";" that the item() before it
\* pushed back, after a rule whose Definition holds a Group closed by its
\* ")" and is followed by an Action.
C24_Witness ==
  /\ called.op = "expect"
  /\ called.ok
  /\ kind(called.read[1]) = "SemiColon"
  /\ called.prior.op = "item"
  /\ ~called.prior.ok
  /\ called.prior.read = called.read
  /\ \E n \in UnderDefinitions : kind(n) = "Group"

\* The marker of the last call, clamped to the length of the list before it.
Clamped ==
  IF called.arg <= Len(called.before.nodes)
    THEN called.arg
    ELSE Len(called.before.nodes)

\* C25: wrap(from, kind) puts one composite of the kind in the place of the
\* nodes from the marker on, with those nodes in their order as its
\* children; the nodes below the marker and the lexer stay as they are and
\* the list is from + 1 long; a marker beyond the list counts as its length
\* and gives a composite without children.
C25_WrapFrame ==
  called.op = "wrap" =>
    /\ parser.lexer = called.before.lexer
    /\ Len(parser.nodes) = Clamped + 1
    /\ SubSeq(parser.nodes, 1, Clamped) = SubSeq(called.before.nodes, 1, Clamped)
    /\ Last(parser.nodes).type = "Inner"
    /\ Last(parser.nodes).kind = "Group"
    /\ Last(parser.nodes).children
         = SubSeq(called.before.nodes, Clamped + 1, Len(called.before.nodes))
    /\ called.arg > Len(called.before.nodes) =>
         /\ Last(parser.nodes).children = <<>>
         /\ Len(parser.nodes) = Len(called.before.nodes) + 1

\* C25 witness: a wrap from marker 1 has taken three of four nodes.
C25_Witness ==
  /\ called.op = "wrap"
  /\ called.arg = 1
  /\ Len(called.before.nodes) = 4
  /\ Len(parser.nodes) = 2
  /\ Len(parser.nodes[2].children) = 3
  /\ parser.nodes[1] = called.before.nodes[1]

\* The Definition of the only rule of a tree.
DefinitionOf(root) ==
  CHOOSE d \in Range(children(solid(root)[1])) : kind(d) = "Definition"

\* x is a Repeating of a Converse, or of such a Repeating.
RECURSIVE RepeatsConverse(_)
RepeatsConverse(x) ==
  /\ kind(x) = "Repeating"
  /\ children(x) # <<>>
  /\ \/ kind(children(x)[1]) = "Converse"
     \/ RepeatsConverse(children(x)[1])

ConverseHint ==
  <<"consider using converse indicator '~' before an expression">>

\* C26: the tree of "a:~" x indicator ";" has the Definition of one
\* Repeating of the Converse of the tilde and x, then the indicator; every
\* Converse without errors holds the tilde and one item, which is a
\* Repeating only when that repeats a Converse; and a tilde before ")", an
\* Action, the end or ";" gives an Error "unexpected ..." with the hint to
\* put the tilde before an expression, and no Converse.
C26_ConverseBinds ==
  parsed # <<>> =>
    /\ \A c \in ConverseCases :
         parseText = ConverseText(c) =>
           /\ RuleShaped(parsed[1])
           /\ kinds_of(solid(DefinitionOf(parsed[1]))) = <<"Repeating">>
           /\ kinds_of(solid(solid(DefinitionOf(parsed[1]))[1]))
                = <<"Converse", c.ik>>
           /\ kinds_of(solid(solid(solid(DefinitionOf(parsed[1]))[1])[1]))
                = <<"Tilde", c.xk>>
    /\ \A n \in Range(subtrees(parsed[1])) :
         kind(n) = "Converse" /\ ~erroneous(n) =>
           /\ Len(solid(n)) = 2
           /\ kind(solid(n)[1]) = "Tilde"
           /\ kind(solid(n)[2]) = "Repeating" => RepeatsConverse(solid(n)[2])
    /\ parseText \in BareConverses =>
         /\ \A n \in Range(subtrees(parsed[1])) : kind(n) # "Converse"
         /\ \E n \in Range(subtrees(parsed[1])) :
              /\ n.type = "Error"
              /\ n.error.message \in { <<"unexpected '~'">>,
                                       <<"unexpected whitespace">> }
              /\ n.error.hints = <<ConverseHint>>

\* C26 witness: the tree of "a:~\"s\" *;", a Repeating of the Converse of
\* a string and, after a space, a star.
C26_Witness ==
  /\ parsed # <<>>
  /\ parseText = <<"a", ":", "~", "\"", "s", "\"", " ", "*", ";">>
  /\ kinds_of(children(solid(DefinitionOf(parsed[1]))[1]))
       = <<"Converse", "Star">>
  /\ kinds_of(solid(solid(solid(DefinitionOf(parsed[1]))[1])[1]))
       = <<"Tilde", "String">>

\* The loop of parse() has come to its end: the lexer is done after the
\* trivia, or the machine has gone on to call single methods.
LoopEnded ==
  \/ called.op \notin {"none", "rule"}
  \/ Lexer_done(eat_while(parser, Pattern_fn(is_trivia)).lexer)

\* No call stalls: an iteration of the loop of parse() and an item() that
\* returns true leave the cursor further on; no call leaves it behind where
\* it started, and uneat() leaves it no further back than where the eat()
\* before it started.
Advances ==
  /\ parser.panic = ""
  /\ called.op = "rule" => parser.lexer.cursor > called.before.lexer.cursor
  /\ called.op = "item" /\ called.ok =>
       parser.lexer.cursor > called.before.lexer.cursor
  /\ called.op \in {"eat", "eat_if", "expect", "item", "wrap"} =>
       parser.lexer.cursor >= called.before.lexer.cursor
  /\ called.op = "uneat" => parser.lexer.cursor >= called.prior.at

\* C27: parse() terminates on every input: each iteration of its loop and
\* each item() that returns true moves the cursor forward, no call of eat,
\* uneat, eat_if or expect moves it back behind where the reading started,
\* and the loop comes to its end.
C27_Termination == []Advances /\ <>LoopEnded

\* C27 witness: the loop of parse() has ended after three rules.
C27_Witness ==
  /\ called.op = "rule"
  /\ called.steps = 3
  /\ Len(parseText) > 0
  /\ Lexer_done(parser.lexer)
  /\ kinds_of(parser.nodes) = <<"Rule", "Rule", "Rule">>

(***************************************************************************)
(* The two traversals of run().                                            *)
(***************************************************************************)
NoRepeat(ids) == \A i, j \in 1..Len(ids) : ids[i] = ids[j] => i = j

IsPrefix(short, long) ==
  Len(short) <= Len(long) /\ short = SubSeq(long, 1, Len(short))

\* The i-th page was made of the i-th chapter of the first traversal; once
\* the second traversal has written i chapters, the i-th of them holds
\* what the i-th page renders to, and the others hold what they held.
PageOfChapter(i) ==
  /\ run.pages[i].href = book[run.visited[i]].path[1]
  /\ IF i <= Len(run.written)
       THEN book[run.written[i]].content =
              render_items(run.rules, run.pages[i].items)
       ELSE run.pages[i].items = parse_content(book[run.visited[i]].content)

\* C28: the traversal that builds the pages and the traversal that writes
\* the results yield the same chapters in the same order, no chapter
\* twice and, once the first is over, every chapter of the book, nested
\* ones included; the i-th rendered content is written to the chapter the
\* i-th page was made of; and parsed_pages is never exhausted while a
\* chapter is still to be written.
C28_ChapterAlignment ==
  /\ NoRepeat(run.visited)
  /\ IsPrefix(run.written, run.visited)
  /\ Len(run.pages) = Len(run.visited)
  /\ \A i \in 1..Len(run.pages) : PageOfChapter(i)
  /\ run.phase \in {"write", "done"} =>
       /\ run.panic = ""
       /\ run.next = Len(run.written) + 1
       /\ Range(run.visited) = 1..Len(book)
       /\ run.stack # <<>> => run.next <= Len(run.pages)
  /\ run.phase = "done" => run.written = run.visited

\* run() has returned on a book of three chapters, the second a sub-item
\* of the first, with three different contents: the sections are yielded
\* last first, and the nested chapter after its parent.
C28_Witness ==
  /\ run.phase = "done"
  /\ Len(book) = 3
  /\ book[2].parent = 1
  /\ book[3].parent = 0
  /\ run.visited = <<3, 1, 2>>
  /\ run.written = <<3, 1, 2>>
  /\ NoRepeat([i \in 1..3 |-> book[i].content])

(***************************************************************************)
(* The spans of the tree returned by parse().                              *)
(***************************************************************************)
\* The spans of the nodes ts lie end to start from offset 0 to offset n.
Tiled(ts, n) ==
  IF ts = <<>>
    THEN n = 0
    ELSE /\ span(ts[1])[1] = 0
         /\ span(ts[Len(ts)])[2] = n
         /\ \A i \in 1..Len(ts) : span(ts[i])[1] <= span(ts[i])[2]
         /\ \A i \in 1..(Len(ts) - 1) : span(ts[i + 1])[1] = span(ts[i])[2]

\* A composite with a child spans from its first child to its last.
Covers(n) ==
  n.type = "Inner" /\ n.children # <<>> =>
    span(n) = <<span(n.children[1])[1],
                span(n.children[Len(n.children)])[2]>>

\* C29: in the tree parse() returns, the spans of the Leaf and Error nodes
\* in depth-first left-to-right order are contiguous and do not overlap,
\* from offset 0 to the length of the input, and every composite with at
\* least one child spans from its first child's start to its last
\* child's end.
C29_SpanTiling ==
  parsed # <<>> =>
    /\ Tiled(tokens(parsed[1]), Len(parseText))
    /\ \A n \in Range(subtrees(parsed[1])) : Covers(n)

\* parse() has returned a tree with a composite without children, a
\* composite below a composite below a Rule, and an Error node that was
\* made of an Action (it spans two characters or more and keeps no text).
C29_Witness ==
  /\ parsed # <<>>
  /\ \E i \in 1..Len(subtrees(parsed[1])) :
       LET n == subtrees(parsed[1])[i]
       IN n.type = "Inner" /\ n.children = <<>>
  /\ \E i \in 1..Len(subtrees(parsed[1])) :
       LET n == subtrees(parsed[1])[i]
       IN kind(n) = "Group" /\ n.children # <<>>
  /\ \E i \in 1..Len(tokens(parsed[1])) :
       LET n == tokens(parsed[1])[i]
       IN /\ n.type = "Error"
          /\ text(n) = <<>>
          /\ span(n)[2] >= span(n)[1] + 2

(***************************************************************************)
(* The text between the tags of the markup of a Code item.                 *)
(***************************************************************************)
Classes ==
  { "comment", "string", "integer", "meta", "action", "keyword", "operator",
    "identifier" }

\* The pieces that end the opening tag of the span of a token: the one of
\* wrap_node_raw for each class, and the end of the one of wrap_error_raw.
SpanOpeners ==
  { "<span class=\"syntax-" \o cls \o "\">" : cls \in Classes }
    \cup { "]\">" }

RawCharacters == { "<", ">", "&", "\"" }

\* No character of RawCharacters stands between the opening tag of a
\* token's span and the closing tag after it.
Escaped(markup) ==
  \A i \in 1..Len(markup) :
    markup[i] \in SpanOpeners =>
      \A j \in (i + 1)..Len(markup) :
        markup[j] \in RawCharacters =>
          \E k \in (i + 1)..(j - 1) : markup[k] = "</span>"

\* The markup of the Code items of a page, item by item.
CodeMarkups(pg) ==
  { parse_code(run.rules, pg.items[i].code) :
      i \in { j \in 1..Len(pg.items) : pg.items[j].tag = "Code" } }

\* C30: in the markup written for a Code item, the text of every token
\* other than Whitespace, the text of Error nodes too, went through HTML
\* escaping: no raw "<", ">", "&" or double quote of the snippet stands
\* in the text of a span.
C30_EscapedOutput ==
  \A k \in 1..Len(run.written) :
    \A markup \in CodeMarkups(run.pages[k]) :
      /\ Occurrences(markup, Written(k)) >= 1
      /\ Escaped(markup)

====
